---- MODULE Spec2Model ----
(***************************************************************************)
(* A model of the command-resolution core of promptwars: the AI-call       *)
(* governor (ai_rate_limiter.py), the morale model and the obedience roll  *)
(* (morale_calculator.py), the persuasion model (persuasion_engine.py),    *)
(* the rules adapter (chess_engine.py), the in-memory record store         *)
(* (game_store.py) and the command / persuasion handlers (routers/game.py).*)
(*                                                                         *)
(* Probabilities are exact decimals counted in units of 1/10000,           *)
(* so 0.95 is 9500.  Every probability the code forms is a multiple of     *)
(* 0.0005, hence exactly representable.  Draws of random.random() are      *)
(* taken from a grid inside [0, 1).                                        *)
(***************************************************************************)
EXTENDS Integers, Sequences, FiniteSets, TLC

----------------------------------------------------------------------------
(* Bounds of the model *)

\* AIRateLimiter(max_calls_per_move, max_calls_per_game, daily_game_limit):
\* constructor parameters (defaults 5 / 200 / 50), scaled down.
MaxCallsPerMove == 2
MaxCallsPerGame == 3
DailyGameLimit == 2
\* game identifiers presented to the governor: one more than the daily ceiling
NumLimGames == 3
\* move numbers presented to the governor
MaxMoveNumber == 2
\* the clock runs over the days 0 .. MaxDay
MaxDay == 1
\* games that can be created
MaxGames == 1
\* requests that are handled without being rejected
MaxRequests == 3
\* requests the server holds at a time
MaxInflight == 2
\* seconds the clock runs
MaxClock == 700
\* seconds the clock of the request limiter runs
MaxTime == 7
\* clear_old_entries: max_age_seconds (default 3600), scaled down
MaxAgeSeconds == 4
\* get_piece_response calls in progress at a time
NumFlows == 2

LimGameIds == 1..NumLimGames
MoveNumbers == 1..MaxMoveNumber
Days == 0..MaxDay

Max(a, b) == IF a >= b THEN a ELSE b
Min(a, b) == IF a <= b THEN a ELSE b

\* sum(f[x] for x in S)
RECURSIVE SumOver(_, _)
SumOver(f, S) ==
    IF S = {} THEN 0
    ELSE LET x == CHOOSE y \in S : TRUE IN f[x] + SumOver(f, S \ {x})

PieceTypes == {"pawn", "knight", "bishop", "rook", "queen", "king"}
\* piece_type is a free string in the code: one unknown type stands for the rest
AnyPieceTypes == PieceTypes \cup {"unknown"}

VARIABLES
    \* ---- AIRateLimiter ----
    moveCalls,      \* _move_calls: game -> move number -> count
    gameCalls,      \* _game_calls: game -> count
    dailyGames,     \* _daily_games: date -> set of games (domain = buckets present)
    today,          \* datetime.now().date()
    limOut,         \* the last call on the governor and what it returned or removed
    allowedRun,     \* history: allowed checks per (game, move) since the game's last reset
    \* ---- MoraleCalculator: morale events on one piece ----
    pieceMorale,    \* the stored morale of the piece
    moraleLog,      \* the last MoraleEvent (event kind, delta, resulting morale)
    \* ---- MoraleCalculator.will_piece_obey ----
    obeyIn, obeyOut,
    \* ---- PersuasionEngine.evaluate_persuasion ----
    persIn, persOut,
    \* ---- InMemoryGameStore ----
    games,          \* games: game id -> game record
    pieces,         \* pieces: piece id -> piece record
    messages,       \* messages: game id -> the message types, in order
    moves,          \* moves: game id -> the move records, in order
    persuasions,    \* persuasions: game id -> the persuasion records, in order
    bySquare,       \* _pieces_by_square: <<game id, square>> -> piece id
    \* ---- the handlers of routers/game.py ----
    lastReq,        \* the last request (or engine call) and its outcome
    handled,        \* number of requests that were not rejected
    \* ---- GeminiService.get_piece_response ----
    agentsInitialized,  \* _agents_initialized and _piece_agent, set by the constructor
    flows,          \* the get_piece_response calls in progress: flow -> its frame
    ledger,         \* AICostTracker._game_usage: game -> calls and tokens
    remoteCalls,    \* history: remote attempts made per (game, move)
    answered,       \* history: generated answers returned per game
    \* ---- requests the server has received and not yet answered ----
    inflight,       \* slot -> the request and how far its handler has come
    \* ---- the calls of GeminiService that no governor guards ----
    clock,          \* datetime.now(), in seconds
    analysisCache,  \* analysis_cache._cache: key -> (timestamp, value)
    svcOut,         \* the last of these calls and where its result came from
    \* ---- InMemoryRateLimiter behind RateLimitMiddleware ----
    timeNow,        \* time.time(), in seconds
    requests,       \* self.requests: key -> the timestamps of its queue
    allowedLog,     \* history: key -> the times of all its allowed requests
    rateOut         \* the last check_rate_limit call and its result

limVars == <<moveCalls, gameCalls, dailyGames, today, limOut, allowedRun>>
morVars == <<pieceMorale, moraleLog>>
obeyVars == <<obeyIn, obeyOut>>
persVars == <<persIn, persOut>>
storeVars == <<games, pieces, messages, moves, persuasions, bySquare>>
gameVars == <<storeVars, lastReq, handled>>
respVars == <<agentsInitialized, flows, ledger, remoteCalls, answered>>
srvVars == <<inflight>>
cacheVars == <<clock, analysisCache, svcOut>>
rateVars == <<timeNow, requests, allowedLog, rateOut>>
vars == <<limVars, morVars, obeyVars, persVars, gameVars, respVars, srvVars, cacheVars, rateVars>>

None == "none"

----------------------------------------------------------------------------
(* AIRateLimiter *)

\* defaultdict(set): reading a bucket that is not there yields the empty set
DailyBucket(d) == IF d \in DOMAIN dailyGames THEN dailyGames[d] ELSE {}

\* faulty variant: reading a day's bucket forgets the buckets of other days
TouchBucket_DropsOld(d) == [x \in {d} |-> DailyBucket(x)]

\* ... and leaves the (empty) bucket behind
TouchBucket(d) == [x \in (DOMAIN dailyGames) \cup {d} |-> DailyBucket(x)]

\* faulty variant: every game is held to the daily ceiling, counted or not
DailyLimitReached_Blind(g) ==
    Cardinality(DailyBucket(today)) >= DailyGameLimit

DailyLimitReached(g) ==
    /\ Cardinality(DailyBucket(today)) >= DailyGameLimit
    /\ g \notin DailyBucket(today)

\* faulty variant: one exhausted move of the game declines all its moves
MoveLimitReached_AnyMove(g, m) ==
    \E x \in MoveNumbers : moveCalls[g][x] >= MaxCallsPerMove

\* faulty variant: the per-move ceiling is tested strictly
MoveLimitReached_Strict(g, m) == moveCalls[g][m] > MaxCallsPerMove

MoveLimitReached(g, m) == moveCalls[g][m] >= MaxCallsPerMove

\* faulty variant: the per-game ceiling is tested strictly
GameLimitReached_Strict(g) == gameCalls[g] > MaxCallsPerGame

GameLimitReached(g) == gameCalls[g] >= MaxCallsPerGame

\* faulty variant: the daily ceiling is not tested
CheckResult_NoDaily(g, m) ==
    IF MoveLimitReached(g, m) THEN [allowed |-> FALSE, reason |-> "move"]
    ELSE IF GameLimitReached(g) THEN [allowed |-> FALSE, reason |-> "game"]
    ELSE [allowed |-> TRUE, reason |-> None]

\* the (is_allowed, error_message) pair; the message is named by its ceiling
CheckResult(g, m) ==
    IF DailyLimitReached(g) THEN [allowed |-> FALSE, reason |-> "daily"]
    ELSE IF MoveLimitReached(g, m) THEN [allowed |-> FALSE, reason |-> "move"]
    ELSE IF GameLimitReached(g) THEN [allowed |-> FALSE, reason |-> "game"]
    ELSE [allowed |-> TRUE, reason |-> None]

\* faulty variant: a declined check still counts towards the game's total
CheckAndIncrement_CountsDeclined(g, m) ==
    LET r == CheckResult(g, m) IN
    /\ limOut' = [op |-> "check", game |-> g, move |-> m,
                  allowed |-> r.allowed, reason |-> r.reason,
                  moveBefore |-> moveCalls[g][m], gameBefore |-> gameCalls[g],
                  runBefore |-> allowedRun[g][m],
                  gameRunBefore |-> SumOver(allowedRun[g], MoveNumbers),
                  counted |-> g \in DailyBucket(today),
                  bucketBefore |-> Cardinality(DailyBucket(today)),
                  days_to_keep |-> 0, removed |-> {}]
    /\ gameCalls' = [gameCalls EXCEPT ![g] = @ + 1]
    /\ IF r.allowed
       THEN /\ moveCalls' = [moveCalls EXCEPT ![g][m] = @ + 1]
            /\ dailyGames' = [TouchBucket(today) EXCEPT ![today] = @ \cup {g}]
            /\ allowedRun' = [allowedRun EXCEPT ![g][m] = @ + 1]
       ELSE /\ dailyGames' = TouchBucket(today)
            /\ UNCHANGED <<moveCalls, allowedRun>>
    /\ UNCHANGED today

CheckAndIncrement(g, m) ==
    LET r == CheckResult(g, m) IN
    /\ limOut' = [op |-> "check", game |-> g, move |-> m,
                  allowed |-> r.allowed, reason |-> r.reason,
                  moveBefore |-> moveCalls[g][m], gameBefore |-> gameCalls[g],
                  runBefore |-> allowedRun[g][m],
                  gameRunBefore |-> SumOver(allowedRun[g], MoveNumbers),
                  counted |-> g \in DailyBucket(today),
                  bucketBefore |-> Cardinality(DailyBucket(today)),
                  days_to_keep |-> 0, removed |-> {}]
    /\ IF r.allowed
       THEN /\ moveCalls' = [moveCalls EXCEPT ![g][m] = @ + 1]
            /\ gameCalls' = [gameCalls EXCEPT ![g] = @ + 1]
            /\ dailyGames' = [TouchBucket(today) EXCEPT ![today] = @ \cup {g}]
            /\ allowedRun' = [allowedRun EXCEPT ![g][m] = @ + 1]
       ELSE /\ dailyGames' = TouchBucket(today)
            /\ UNCHANGED <<moveCalls, gameCalls, allowedRun>>
    /\ UNCHANGED today

\* faulty variant: the per-move counts are kept
ResetGame_TotalOnly(g) ==
    /\ gameCalls' = [gameCalls EXCEPT ![g] = 0]
    /\ limOut' = [limOut EXCEPT !.op = "reset", !.game = g]
    /\ UNCHANGED <<moveCalls, allowedRun, dailyGames, today>>

ResetGame(g) ==
    /\ moveCalls' = [moveCalls EXCEPT ![g] = [m \in MoveNumbers |-> 0]]
    /\ gameCalls' = [gameCalls EXCEPT ![g] = 0]
    /\ allowedRun' = [allowedRun EXCEPT ![g] = [m \in MoveNumbers |-> 0]]
    /\ limOut' = [limOut EXCEPT !.op = "reset", !.game = g]
    /\ UNCHANGED <<dailyGames, today>>

\* the wall clock passes midnight
Midnight ==
    /\ today < MaxDay
    /\ today' = today + 1
    /\ limOut' = [limOut EXCEPT !.op = "midnight"]
    /\ UNCHANGED <<moveCalls, gameCalls, dailyGames, allowedRun>>

\* days_to_keep values of the sweep
KeepDays == {0, 1}

\* faulty variant: the bucket dated at the cutoff goes too
Expired_Inclusive(date, cutoff_date) == date <= cutoff_date

\* date < cutoff_date on ISO dates, which order as the days they name
Expired(date, cutoff_date) == date < cutoff_date

\* cleanup_old_data: the buckets dated before today - days_to_keep are deleted
CleanupOldData(days_to_keep) ==
    LET cutoff_date == today - days_to_keep
        dates_to_remove == {date \in DOMAIN dailyGames : Expired(date, cutoff_date)}
    IN /\ dailyGames' = [date \in (DOMAIN dailyGames) \ dates_to_remove |->
                             dailyGames[date]]
       /\ limOut' = [limOut EXCEPT !.op = "cleanup", !.days_to_keep = days_to_keep,
                                   !.removed = dates_to_remove]
       /\ UNCHANGED <<moveCalls, gameCalls, allowedRun, today>>

LimInit ==
    /\ moveCalls = [g \in LimGameIds |-> [m \in MoveNumbers |-> 0]]
    /\ gameCalls = [g \in LimGameIds |-> 0]
    /\ dailyGames = <<>>
    /\ today = 0
    /\ limOut = [op |-> "init", game |-> 1, move |-> 1, allowed |-> FALSE, reason |-> None,
                 moveBefore |-> 0, gameBefore |-> 0, runBefore |-> 0, gameRunBefore |-> 0,
                 counted |-> FALSE, bucketBefore |-> 0,
                 days_to_keep |-> 0, removed |-> {}]
    /\ allowedRun = [g \in LimGameIds |-> [m \in MoveNumbers |-> 0]]

----------------------------------------------------------------------------
(* MoraleCalculator: the morale model *)

MORALE_EVENTS ==
    [capture_enemy |-> 15, friendly_captured |-> -10, endangered |-> -8,
     protected |-> 10, blunder |-> -5, idle |-> -5, compliment |-> 5,
     promotion |-> 30, good_position |-> 5, clever_tactic |-> 10,
     game_start |-> 0, persuasion_success |-> 5, persuasion_fail |-> -3,
     player_lied |-> -15]

\* event_type is a free string: "other" stands for every kind the table lacks
EventKinds == (DOMAIN MORALE_EVENTS) \cup {"other"}

\* the largest override a personality's morale_modifiers map carries
MaxOverride == 120
OverrideDeltas == {-MaxOverride, -7, 7, MaxOverride}
\* the event kinds a personality overrides
OverrideKinds == {"capture_enemy", "blunder", "other"}

\* a personality is its morale_modifiers map, a set of <<event kind, delta>>
\* with at most one delta per kind; {} is also "no personality" and
\* "no morale_modifiers key"
Personalities ==
    {{}} \cup {{<<e, d>>} : e \in OverrideKinds, d \in OverrideDeltas}

calculate_morale_change(event_type, current_morale, personality) ==
    LET base_change == IF event_type \in DOMAIN MORALE_EVENTS
                       THEN MORALE_EVENTS[event_type] ELSE 0
    IN IF \E p \in personality : p[1] = event_type
       THEN (CHOOSE p \in personality : p[1] = event_type)[2]
       ELSE base_change

\* faulty variant: no upper clamp
apply_morale_change_NoCeiling(current_morale, change) ==
    Max(0, current_morale + change)

apply_morale_change(current_morale, change) ==
    Max(0, Min(100, current_morale + change))

\* one MoraleEvent on the piece: the delta of the event, applied and stored
MoraleEvent(ev, personality) ==
    LET change == calculate_morale_change(ev, pieceMorale, personality)
        after == apply_morale_change(pieceMorale, change)
    IN /\ pieceMorale' = after
       /\ moraleLog' = [event |-> ev, change |-> change, before |-> pieceMorale,
                        after |-> after]

MoraleInit ==
    /\ pieceMorale \in 0..100
    /\ moraleLog = [event |-> "game_start", change |-> 0, before |-> pieceMorale,
                    after |-> pieceMorale]

----------------------------------------------------------------------------
(* MoraleCalculator: the obedience roll *)

get_obedience_rate(morale) ==
    IF morale >= 80 THEN 9500
    ELSE IF morale >= 60 THEN 8000
    ELSE IF morale >= 40 THEN 5500
    ELSE IF morale >= 20 THEN 3000
    ELSE 1000

personality_modifiers ==
    [rook |-> 1000, knight |-> -500, bishop |-> 0, pawn |-> 500,
     queen |-> -1000, king |-> 1500]

\* faulty variant: the risk adjustment is left out
obedience_rate_NoRisk(morale, is_risky, piece_type) ==
    get_obedience_rate(morale)
    + (IF piece_type \in DOMAIN personality_modifiers
       THEN personality_modifiers[piece_type] ELSE 0)

\* base_rate after the risk adjustment (* 0.7) and the piece-type adjustment
obedience_rate(morale, is_risky, piece_type) ==
    LET base_rate == get_obedience_rate(morale)
        adjusted == IF is_risky THEN (base_rate * 7) \div 10 ELSE base_rate
    IN adjusted + (IF piece_type \in DOMAIN personality_modifiers
                   THEN personality_modifiers[piece_type] ELSE 0)

\* faulty variant: no override for very high morale
will_piece_obey_NoOverride(morale, is_risky, piece_type, draw) ==
    draw < obedience_rate(morale, is_risky, piece_type)

\* draw is the value random.random() returns
will_piece_obey(morale, is_risky, piece_type, draw) ==
    IF morale >= 90 /\ ~is_risky
    THEN TRUE
    ELSE draw < obedience_rate(morale, is_risky, piece_type)

\* morale values on both sides of every tier edge, and outside 0..100
MoraleSamples == {-5, 0, 19, 20, 39, 40, 59, 60, 70, 79, 80, 89, 90, 95, 100, 150}

\* draws of random.random(), in [0, 1): 0, 0.5 and the midpoints of a grid of
\* 0.005; every rate the code forms is a multiple of 0.005, so only the draw
\* 0.5 can sit on one
DrawSamples == {0, 5000} \cup {d \in 1..9999 : d % 50 = 25}

ObeyCall ==
    /\ ~obeyOut.done
    /\ obeyOut' = [done |-> TRUE,
                   obey |-> will_piece_obey(obeyIn.morale, obeyIn.is_risky,
                                            obeyIn.piece_type, obeyIn.draw)]
    /\ UNCHANGED obeyIn

ObeyInit ==
    /\ obeyIn \in [morale : MoraleSamples, is_risky : BOOLEAN,
                   piece_type : AnyPieceTypes, draw : DrawSamples]
    /\ obeyOut = [done |-> FALSE, obey |-> FALSE]

----------------------------------------------------------------------------
(* PersuasionEngine *)

\* text is a sequence of characters
LowerCase ==
    [A |-> "a", B |-> "b", C |-> "c", D |-> "d", E |-> "e", F |-> "f", G |-> "g",
     H |-> "h", I |-> "i", J |-> "j", K |-> "k", L |-> "l", M |-> "m", N |-> "n",
     O |-> "o", P |-> "p", Q |-> "q", R |-> "r", S |-> "s", T |-> "t", U |-> "u",
     V |-> "v", W |-> "w", X |-> "x", Y |-> "y", Z |-> "z"]

\* str.lower()
Lower(text) ==
    [i \in 1..Len(text) |->
        IF text[i] \in DOMAIN LowerCase THEN LowerCase[text[i]] ELSE text[i]]

\* needle in text
Contains(text, needle) ==
    \E i \in 1..(Len(text) - Len(needle) + 1) :
        SubSeq(text, i, i + Len(needle) - 1) = needle

\* faulty variant: the characters are counted, not the words
WordCount_Chars(text) == Len(text)

\* len(text.split()): the maximal runs of non-blank characters
WordCount(text) ==
    Cardinality({i \in 1..Len(text) :
        text[i] # " " /\ (i = 1 \/ text[i - 1] = " ")})

PERSONALITY_KEYWORDS ==
    [pawn |-> <<<<"t","e","a","m">>,
            <<"s","a","c","r","i","f","i","c","e">>,
            <<"t","o","g","e","t","h","e","r">>,
            <<"d","u","t","y">>,
            <<"g","r","e","a","t","e","r"," ","g","o","o","d">>,
            <<"p","r","o","m","o","t","i","o","n">>,
            <<"a","d","v","a","n","c","e">>>>,
     knight |-> <<<<"g","l","o","r","y">>,
            <<"b","r","a","v","e">>,
            <<"h","e","r","o","i","c">>,
            <<"a","d","v","e","n","t","u","r","e">>,
            <<"c","h","a","r","g","e">>,
            <<"h","o","n","o","r">>,
            <<"f","l","a","s","h","y">>>>,
     bishop |-> <<<<"l","o","g","i","c">>,
            <<"t","a","c","t","i","c","a","l">>,
            <<"s","t","r","a","t","e","g","y">>,
            <<"p","o","s","i","t","i","o","n">>,
            <<"c","a","l","c","u","l","a","t","e","d">>,
            <<"s","m","a","r","t">>,
            <<"r","e","a","s","o","n">>>>,
     rook |-> <<<<"d","u","t","y">>,
            <<"o","r","d","e","r">>,
            <<"d","i","s","c","i","p","l","i","n","e">>,
            <<"d","e","f","e","n","d">>,
            <<"h","o","l","d">>,
            <<"s","t","r","o","n","g">>,
            <<"f","o","r","t","r","e","s","s">>>>,
     queen |-> <<<<"p","o","w","e","r">>,
            <<"p","r","o","t","e","c","t">>,
            <<"i","m","p","o","r","t","a","n","t">>,
            <<"s","a","f","e">>,
            <<"r","e","t","r","e","a","t">>,
            <<"v","a","l","u","e">>,
            <<"w","o","r","t","h">>>>,
     king |-> <<<<"s","u","r","v","i","v","e">>,
            <<"p","r","o","t","e","c","t">>,
            <<"c","a","s","t","l","e">>,
            <<"s","a","f","e","t","y">>,
            <<"k","i","n","g","d","o","m">>,
            <<"c","a","r","e","f","u","l">>>>]

RiskTerms == <<<<"r","i","s","k","y">>,
    <<"d","a","n","g","e","r","o","u","s">>,
    <<"s","a","c","r","i","f","i","c","e">>,
    <<"t","r","a","d","e">>>>
\* ''
ArgEmpty == <<>>
\* 'Move now'
ArgShort == <<"M","o","v","e"," ","n","o","w">>
\* 'For the team and greater good!'
ArgTeam == <<"F","o","r"," ","t","h","e"," ","t","e","a","m"," ","a","n","d"," ","g","r","e","a","t","e","r"," ","g","o","o","d","!">>
\* 'It is RISKY but glory and honor await a brave heroic charge'
ArgKnight == <<"I","t"," ","i","s"," ","R","I","S","K","Y"," ","b","u","t"," ","g","l","o","r","y"," ","a","n","d"," ","h","o","n","o","r"," ","a","w","a","i","t"," ","a"," ","b","r","a","v","e"," ","h","e","r","o","i","c"," ","c","h","a","r","g","e">>
\* 'protect the castle and survive my king'
ArgKing == <<"p","r","o","t","e","c","t"," ","t","h","e"," ","c","a","s","t","l","e"," ","a","n","d"," ","s","u","r","v","i","v","e"," ","m","y"," ","k","i","n","g">>

\* the argument texts of the model, by name; an argument is passed by its name
Arguments ==
    [empty |-> ArgEmpty, short |-> ArgShort, team |-> ArgTeam,
     knight |-> ArgKnight, king |-> ArgKing]

\* len(argument.split()), per argument
ArgWordCount == [a \in DOMAIN Arguments |-> WordCount(Arguments[a])]

\* any(word in argument.lower() for word in [...]), per argument
ArgNamesRisk ==
    [a \in DOMAIN Arguments |->
        \E i \in DOMAIN RiskTerms : Contains(Lower(Arguments[a]), RiskTerms[i])]

\* sum(1 for kw in keywords if kw in argument_lower), per argument and piece type
KeywordMatches ==
    [a \in DOMAIN Arguments |->
        [t \in DOMAIN PERSONALITY_KEYWORDS |->
            Cardinality({i \in DOMAIN PERSONALITY_KEYWORDS[t] :
                Contains(Lower(Arguments[a]), PERSONALITY_KEYWORDS[t][i])})]]

BASE_RATES ==
    <<[low |-> 80, high |-> 100, rate |-> 9000],
      [low |-> 60, high |-> 79, rate |-> 7000],
      [low |-> 40, high |-> 59, rate |-> 4500],
      [low |-> 20, high |-> 39, rate |-> 2500],
      [low |-> 0, high |-> 19, rate |-> 1000]>>

get_base_rate(morale) ==
    IF \E i \in DOMAIN BASE_RATES :
           BASE_RATES[i].low <= morale /\ morale <= BASE_RATES[i].high
    THEN BASE_RATES[CHOOSE i \in DOMAIN BASE_RATES :
           BASE_RATES[i].low <= morale /\ morale <= BASE_RATES[i].high].rate
    ELSE 4500

calculate_logic_score(argument, is_claim_accurate, is_risky) ==
    LET accuracy == IF is_claim_accurate THEN 10 ELSE -5
        word_count == ArgWordCount[argument]
        detail == IF word_count >= 10 THEN 5
                  ELSE IF word_count >= 5 THEN 3 ELSE 0
        honesty == IF is_risky /\ ArgNamesRisk[argument] THEN 5 ELSE 0
    IN Max(0, Min(25, 5 + accuracy + detail + honesty))

calculate_personality_match(argument, piece_type) ==
    LET matches == IF piece_type \in DOMAIN PERSONALITY_KEYWORDS
                   THEN KeywordMatches[argument][piece_type]
                   ELSE 0    \* PERSONALITY_KEYWORDS.get(piece_type, [])
    IN IF matches >= 3 THEN 15
       ELSE IF matches >= 2 THEN 10
       ELSE IF matches >= 1 THEN 7
       ELSE 2

calculate_morale_modifier(morale) ==
    IF morale >= 80 THEN 20
    ELSE IF morale >= 60 THEN 10
    ELSE IF morale >= 40 THEN 0
    ELSE IF morale >= 20 THEN -10
    ELSE -20

\* trust_history in units of 1/10000
calculate_trust_modifier(trust_history) ==
    IF trust_history >= 8000 THEN 10
    ELSE IF trust_history >= 6000 THEN 5
    ELSE IF trust_history >= 4000 THEN 0
    ELSE IF trust_history >= 2000 THEN -8
    ELSE -15

calculate_urgency_factor(is_check, material_balance, move_count) ==
    LET check == IF is_check THEN 5 ELSE 0
        material == IF material_balance < -3 THEN 3
                    ELSE IF material_balance < 0 THEN 1 ELSE 0
        late == IF move_count > 40 THEN 2 ELSE 0
    IN Min(10, check + material + late)

\* round(x, 3) on a value in units of 1/10000: to the nearest multiple of 10,
\* a tie to the even one
Round3(x) ==
    LET q == x \div 10
        r == x % 10
    IN IF r < 5 THEN 10 * q
       ELSE IF r > 5 THEN 10 * (q + 1)
       ELSE IF q % 2 = 0 THEN 10 * q ELSE 10 * (q + 1)

\* faulty variant: the personality match carries no weight
raw_probability_NoPersonality(base_rate, logic_score, personality_match, morale_modifier, trust_modifier, urgency_factor) ==
    base_rate \div 2 + logic_score * 100 + (morale_modifier * 50 + 1000)
    + (trust_modifier * 60 + 900) + urgency_factor * 100

\* base_rate * 0.5 + total_bonus, in units of 1/10000:
\*   (logic/25)*0.25 = logic*100,  (match/15)*0.15 = match*100,
\*   (morale_mod/40 + 0.5)*0.20 = morale_mod*50 + 1000,
\*   (trust_mod/25 + 0.6)*0.15 = trust_mod*60 + 900,  (urgency/10)*0.10 = urgency*100
raw_probability(base_rate, logic_score, personality_match, morale_modifier, trust_modifier, urgency_factor) ==
    base_rate \div 2
    + logic_score * 100
    + personality_match * 100
    + (morale_modifier * 50 + 1000)
    + (trust_modifier * 60 + 900)
    + urgency_factor * 100

\* faulty variant: no upper clamp
clamp_probability_NoCeiling(p) == Max(500, p)

\* max(0.05, min(0.95, probability))
clamp_probability(p) == Min(9500, Max(500, p))

\* evaluate_persuasion up to the roll: the factors and the probability
persuasion_factors(argument, piece_type, morale, is_claim_accurate, is_risky, trust_history, is_check, material_balance, move_count) ==
    LET base_rate == get_base_rate(morale)
        logic_score == calculate_logic_score(argument, is_claim_accurate, is_risky)
        personality_match == calculate_personality_match(argument, piece_type)
        morale_modifier == calculate_morale_modifier(morale)
        trust_modifier == calculate_trust_modifier(trust_history)
        urgency_factor == calculate_urgency_factor(is_check, material_balance, move_count)
    IN [probability |-> clamp_probability(
            raw_probability(base_rate, logic_score, personality_match,
                            morale_modifier, trust_modifier, urgency_factor)),
        logic_score |-> logic_score,
        personality_match |-> personality_match,
        morale_modifier |-> morale_modifier,
        trust_modifier |-> trust_modifier,
        urgency_factor |-> urgency_factor]

\* the roll and the returned dict; draw is the value random.random() returns
persuasion_result(factors, draw) ==
    [success |-> draw < factors.probability,
     probability |-> Round3(factors.probability),
     logic_score |-> factors.logic_score,
     personality_match |-> factors.personality_match,
     morale_modifier |-> factors.morale_modifier,
     trust_modifier |-> factors.trust_modifier,
     urgency_factor |-> factors.urgency_factor]

evaluate_persuasion(argument, piece_type, morale, is_claim_accurate, is_risky, trust_history, is_check, material_balance, move_count, draw) ==
    persuasion_result(
        persuasion_factors(argument, piece_type, morale, is_claim_accurate, is_risky,
                           trust_history, is_check, material_balance, move_count),
        draw)

PersMoraleSamples == {-5, 10, 20, 45, 70, 80, 100, 150}
TrustSamples == {0, 2000, 5000, 6000, 9000}
MaterialSamples == {-5, -1, 0, 4}
MoveCountSamples == {0, 41}
PersDrawSamples == {0, 4999, 9999}

PersInputs ==
    [argument : DOMAIN Arguments, piece_type : AnyPieceTypes,
     morale : PersMoraleSamples, is_claim_accurate : BOOLEAN, is_risky : BOOLEAN,
     trust_history : TrustSamples, is_check : BOOLEAN,
     material_balance : MaterialSamples, move_count : MoveCountSamples,
     draw : PersDrawSamples]

NoEvaluation ==
    [success |-> FALSE, probability |-> 0, logic_score |-> 0, personality_match |-> 0,
     morale_modifier |-> 0, trust_modifier |-> 0, urgency_factor |-> 0]

PersCall ==
    /\ ~persOut.done
    /\ persOut' = [done |-> TRUE,
                   result |-> evaluate_persuasion(
                       persIn.argument, persIn.piece_type, persIn.morale,
                       persIn.is_claim_accurate, persIn.is_risky, persIn.trust_history,
                       persIn.is_check, persIn.material_balance, persIn.move_count,
                       persIn.draw)]
    /\ UNCHANGED persIn

PersInit ==
    /\ persIn \in PersInputs
    /\ persOut = [done |-> FALSE, result |-> NoEvaluation]

----------------------------------------------------------------------------
(* The rules oracle behind ChessEngine (python-chess), on a board of three  *)
(* files and five ranks with kings, pawns and queens: moves, captures,     *)
(* the double pawn step and the en-passant capture, promotion, check,      *)
(* checkmate, stalemate and bare kings.                                    *)

\* chess.SQUARE_NAMES; the square named SQUARE_NAMES[i] is the number i - 1
SQUARE_NAMES ==
    <<"a1", "b1", "c1", "a2", "b2", "c2", "a3", "b3", "c3",
      "a4", "b4", "c4", "a5", "b5", "c5">>

BoardSquares == 0..(Len(SQUARE_NAMES) - 1)
FileOf(s) == s % 3
RankOf(s) == s \div 3
LastRank == RankOf(Len(SQUARE_NAMES) - 1)

ValueError == -1

\* chess.parse_square: SQUARE_NAMES.index(name), ValueError when it is no name
parse_square(name) ==
    IF \E i \in DOMAIN SQUARE_NAMES : SQUARE_NAMES[i] = name
    THEN (CHOOSE i \in DOMAIN SQUARE_NAMES : SQUARE_NAMES[i] = name) - 1
    ELSE ValueError

square_name(s) == SQUARE_NAMES[s + 1]

Empty == "."
WhiteMen == {"K", "Q", "P"}
BlackMen == {"k", "q", "p"}

ColorOf(man) == IF man \in WhiteMen THEN "white" ELSE "black"
Opponent(color) == IF color = "white" THEN "black" ELSE "white"

\* PIECE_TYPE_MAP
KindOf(man) ==
    IF man \in {"K", "k"} THEN "king"
    ELSE IF man \in {"Q", "q"} THEN "queen"
    ELSE "pawn"

Abs(x) == IF x < 0 THEN -x ELSE x
Sign(x) == IF x < 0 THEN -1 ELSE IF x > 0 THEN 1 ELSE 0

Forward(color) == IF color = "white" THEN 1 ELSE -1
PawnRank(color) == IF color = "white" THEN 1 ELSE LastRank - 1
BackRank(color) == IF color = "white" THEN LastRank ELSE 0

Aligned(s, t) ==
    /\ s # t
    /\ \/ FileOf(s) = FileOf(t)
       \/ RankOf(s) = RankOf(t)
       \/ Abs(FileOf(s) - FileOf(t)) = Abs(RankOf(s) - RankOf(t))

\* the squares strictly between two aligned squares
Between(s, t) ==
    LET df == Sign(FileOf(t) - FileOf(s))
        dr == Sign(RankOf(t) - RankOf(s))
        n == Max(Abs(FileOf(t) - FileOf(s)), Abs(RankOf(t) - RankOf(s)))
    IN {x \in BoardSquares : \E k \in 1..(n - 1) :
            /\ FileOf(x) = FileOf(s) + k * df
            /\ RankOf(x) = RankOf(s) + k * dr}

\* the man on s attacks t
Attacks(board, s, t) ==
    LET man == board[s] IN
    /\ man # Empty
    /\ CASE KindOf(man) = "pawn" ->
                /\ RankOf(t) = RankOf(s) + Forward(ColorOf(man))
                /\ Abs(FileOf(t) - FileOf(s)) = 1
         [] KindOf(man) = "king" ->
                /\ s # t
                /\ Abs(FileOf(t) - FileOf(s)) <= 1
                /\ Abs(RankOf(t) - RankOf(s)) <= 1
         [] OTHER ->
                /\ Aligned(s, t)
                /\ \A x \in Between(s, t) : board[x] = Empty

\* Board.is_attacked_by
is_attacked_by(board, color, t) ==
    \E s \in BoardSquares :
        board[s] # Empty /\ ColorOf(board[s]) = color /\ Attacks(board, s, t)

NoSquare == -1

\* chess.Move(from_square, to_square, promotion)
ChessMoves == [from : BoardSquares, to : BoardSquares, promotion : BOOLEAN]

IsEnPassant(pos, mv) ==
    /\ mv.to = pos.ep
    /\ pos.board[mv.from] # Empty
    /\ KindOf(pos.board[mv.from]) = "pawn"
    /\ FileOf(mv.from) # FileOf(mv.to)
    /\ pos.board[mv.to] = Empty

IsDoubleStep(pos, mv) ==
    /\ pos.board[mv.from] # Empty
    /\ KindOf(pos.board[mv.from]) = "pawn"
    /\ Abs(RankOf(mv.to) - RankOf(mv.from)) = 2

\* Board.push, on the board alone
PushBoard(pos, mv) ==
    LET man == pos.board[mv.from]
        placed == IF mv.promotion
                  THEN (IF ColorOf(man) = "white" THEN "Q" ELSE "q")
                  ELSE man
        taken == IF IsEnPassant(pos, mv)
                 THEN mv.to - 3 * Forward(ColorOf(man))
                 ELSE mv.to
    IN [s \in BoardSquares |->
            IF s = mv.to THEN placed
            ELSE IF s = mv.from \/ s = taken THEN Empty
            ELSE pos.board[s]]

KingSquares(board, color) ==
    {s \in BoardSquares : board[s] # Empty /\ KindOf(board[s]) = "king"
                          /\ ColorOf(board[s]) = color}

KingAttacked(board, color) ==
    \E s \in KingSquares(board, color) : is_attacked_by(board, Opponent(color), s)

PseudoLegal(pos, mv) ==
    LET man == pos.board[mv.from]
        target == pos.board[mv.to]
    IN /\ man # Empty
       /\ ColorOf(man) = pos.turn
       /\ target = Empty \/ ColorOf(target) # pos.turn
       /\ IF KindOf(man) = "pawn"
          THEN /\ mv.promotion = (RankOf(mv.to) = BackRank(pos.turn))
               /\ \/ /\ FileOf(mv.to) = FileOf(mv.from)
                     /\ target = Empty
                     /\ \/ RankOf(mv.to) = RankOf(mv.from) + Forward(pos.turn)
                        \/ /\ RankOf(mv.from) = PawnRank(pos.turn)
                           /\ RankOf(mv.to) = RankOf(mv.from) + 2 * Forward(pos.turn)
                           /\ pos.board[mv.from + 3 * Forward(pos.turn)] = Empty
                  \/ /\ Attacks(pos.board, mv.from, mv.to)
                     /\ target # Empty \/ mv.to = pos.ep
          ELSE /\ ~mv.promotion
               /\ Attacks(pos.board, mv.from, mv.to)

\* move in Board.legal_moves
IsLegal(pos, mv) ==
    /\ PseudoLegal(pos, mv)
    /\ ~KingAttacked(PushBoard(pos, mv), pos.turn)

legal_moves(pos) == {mv \in ChessMoves : IsLegal(pos, mv)}

\* faulty variant: the side to move stays the same
Push_SameSide(pos, mv) ==
    [board |-> PushBoard(pos, mv), turn |-> pos.turn, ep |-> NoSquare]

\* Board.push followed by Board.fen: the position the next request loads.
\* The en-passant square is written only while a capture onto it is legal.
Push(pos, mv) ==
    LET after == [board |-> PushBoard(pos, mv), turn |-> Opponent(pos.turn),
                  ep |-> IF IsDoubleStep(pos, mv)
                         THEN mv.from + 3 * Forward(pos.turn) ELSE NoSquare]
    IN IF /\ after.ep # NoSquare
          /\ \E c \in ChessMoves : IsEnPassant(after, c) /\ IsLegal(after, c)
       THEN after ELSE [after EXCEPT !.ep = NoSquare]

\* Board.is_capture
is_capture(pos, mv) ==
    \/ pos.board[mv.to] # Empty /\ ColorOf(pos.board[mv.to]) # pos.turn
    \/ IsEnPassant(pos, mv)

is_check(pos) == KingAttacked(pos.board, pos.turn)
\* not any(self.generate_legal_moves())
NoLegalMove(pos) == \A mv \in ChessMoves : ~IsLegal(pos, mv)
is_checkmate(pos) == is_check(pos) /\ NoLegalMove(pos)
is_stalemate(pos) == ~is_check(pos) /\ NoLegalMove(pos)
\* with kings, pawns and queens only bare kings cannot mate
is_insufficient_material(pos) ==
    \A s \in BoardSquares : pos.board[s] # Empty => KindOf(pos.board[s]) = "king"
\* Board.is_game_over; the 75-move and fivefold rules need longer games
is_game_over(pos) ==
    is_checkmate(pos) \/ is_stalemate(pos) \/ is_insufficient_material(pos)

PIECE_VALUES == [pawn |-> 1, queen |-> 9, king |-> 0]

get_material_balance(pos) ==
    SumOver([s \in BoardSquares |->
                IF pos.board[s] = Empty THEN 0
                ELSE IF ColorOf(pos.board[s]) = "white"
                     THEN PIECE_VALUES[KindOf(pos.board[s])]
                     ELSE -PIECE_VALUES[KindOf(pos.board[s])]],
            BoardSquares)

get_game_result(pos) ==
    IF ~is_game_over(pos) THEN None
    ELSE IF is_checkmate(pos)
         THEN (IF pos.turn = "white" THEN "black_wins" ELSE "white_wins")
    ELSE IF is_stalemate(pos) THEN "stalemate"
    ELSE "draw"

----------------------------------------------------------------------------
(* ChessEngine *)

\* _is_move_risky: push, ask whether the destination is attacked, pop.
\* After the push board.turn is the other side, so "not self.board.turn" is
\* the side that has just moved.
is_move_risky(pos, mv) ==
    is_attacked_by(PushBoard(pos, mv), pos.turn, mv.to)

Declined(error) ==
    [legal |-> FALSE, error |-> error, from |-> NoSquare, to |-> NoSquare,
     promotion |-> FALSE, is_capture |-> FALSE, is_risky |-> FALSE]

\* faulty variant: the move is not looked up in the legal moves
validate_move_Unchecked(pos, from_square, to_square) ==
    LET from_sq == parse_square(from_square)
        to_sq == parse_square(to_square)
    IN IF from_sq = ValueError \/ to_sq = ValueError
       THEN Declined("Invalid square")
       ELSE LET man == pos.board[from_sq]
                promotion == /\ man # Empty
                             /\ KindOf(man) = "pawn"
                             /\ RankOf(to_sq) = BackRank(pos.turn)
                move == [from |-> from_sq, to |-> to_sq, promotion |-> promotion]
            IN [legal |-> TRUE, error |-> None, from |-> from_sq, to |-> to_sq,
                promotion |-> promotion,
                is_capture |-> is_capture(pos, move),
                is_risky |-> is_move_risky(pos, move)]

\* validate_move; san is left out, it names the move and decides nothing
validate_move(pos, from_square, to_square) ==
    LET from_sq == parse_square(from_square)
        to_sq == parse_square(to_square)
    IN IF from_sq = ValueError \/ to_sq = ValueError
       THEN Declined("Invalid square")
       ELSE LET man == pos.board[from_sq]
                promotion == /\ man # Empty
                             /\ KindOf(man) = "pawn"
                             /\ RankOf(to_sq) = BackRank(pos.turn)
                move == [from |-> from_sq, to |-> to_sq, promotion |-> promotion]
            IN IF ~IsLegal(pos, move)    \* move not in self.board.legal_moves
               THEN Declined("Illegal move")
               ELSE [legal |-> TRUE, error |-> None, from |-> from_sq, to |-> to_sq,
                     promotion |-> promotion,
                     is_capture |-> is_capture(pos, move),
                     is_risky |-> is_move_risky(pos, move)]

\* make_move_from_squares: the result and the engine's position after the call
make_move_from_squares(pos, from_square, to_square) ==
    LET result == validate_move(pos, from_square, to_square) IN
    IF ~result.legal
    THEN [result |-> result, board |-> pos]
    ELSE [result |-> result,
          board |-> Push(pos, [from |-> result.from, to |-> result.to,
                               promotion |-> result.promotion])]

\* chess.STARTING_FEN, cut down to the board of this model
STARTING_FEN ==
    [board |-> [s \in BoardSquares |->
                    CASE s = parse_square("b1") -> "K"
                      [] s = parse_square("a2") -> "P"
                      [] s = parse_square("c4") -> "P"
                      [] s = parse_square("a5") -> "k"
                      [] s = parse_square("b4") -> "p"
                      [] OTHER -> Empty],
     turn |-> "white", ep |-> NoSquare]

----------------------------------------------------------------------------
(* InMemoryGameStore *)

GameIds == 1..MaxGames
Sessions == {"s1", "s2"}

\* Python's None where a string is expected
NoneStr == "none"

\* STARTING_PIECES, cut down to the board of this model, in creation order
STARTING_PIECES ==
    <<[color |-> "white", piece_type |-> "king", square |-> "b1"],
      [color |-> "white", piece_type |-> "pawn", square |-> "a2"],
      [color |-> "white", piece_type |-> "pawn", square |-> "c4"],
      [color |-> "black", piece_type |-> "king", square |-> "a5"],
      [color |-> "black", piece_type |-> "pawn", square |-> "b4"]>>

\* the piece ids create_game gives out: <<game, position in STARTING_PIECES>>
PieceIdsOf(g) == {<<g, k>> : k \in DOMAIN STARTING_PIECES}
\* ... and an id no piece has
UnknownPiece == <<0, 0>>
RequestPieceIds == UNION {PieceIdsOf(g) : g \in GameIds} \cup {UnknownPiece}

SquareNames == {SQUARE_NAMES[i] : i \in DOMAIN SQUARE_NAMES}

\* target_square is any string: some square names and one string that is none
RequestSquares == {"a3", "a4", "b2", "b3", "c5", "z9"}

Put(f, k, v) == [x \in (DOMAIN f) \cup {k} |-> IF x = k THEN v ELSE f[x]]
Drop(f, k) == [x \in (DOMAIN f) \ {k} |-> f[x]]
\* dict.update
Merge(rec, data) ==
    [f \in DOMAIN rec |-> IF f \in DOMAIN data THEN data[f] ELSE rec[f]]

\* get_game_pieces: the game's pieces in creation order
get_game_pieces(ps, g) ==
    LET ks == {k \in DOMAIN STARTING_PIECES : <<g, k>> \in DOMAIN ps}
    IN [k \in ks |-> ps[<<g, k>>]]

\* update_piece on the store st = [pieces, bySquare]
update_piece(st, pid, data) ==
    IF pid \notin DOMAIN st.pieces THEN st
    ELSE
    LET piece == st.pieces[pid]
        g == piece.game_id
        moved == "square" \in DOMAIN data /\ data.square # piece.square
        captured == IF "is_captured" \in DOMAIN data
                    THEN data.is_captured ELSE piece.is_captured
        idx1 == IF moved /\ piece.square # NoneStr
                   /\ <<g, piece.square>> \in DOMAIN st.bySquare
                THEN Drop(st.bySquare, <<g, piece.square>>) ELSE st.bySquare
        idx2 == IF moved /\ data.square # NoneStr /\ ~captured
                THEN Put(idx1, <<g, data.square>>, pid) ELSE idx1
        idx3 == IF /\ "is_captured" \in DOMAIN data
                   /\ data.is_captured
                   /\ ~piece.is_captured
                   /\ piece.square # NoneStr
                   /\ <<g, piece.square>> \in DOMAIN idx2
                THEN Drop(idx2, <<g, piece.square>>) ELSE idx2
    IN [pieces |-> [st.pieces EXCEPT ![pid] = Merge(piece, data)],
        bySquare |-> idx3]

\* get_piece_at_square
get_piece_at_square(g, square) ==
    IF <<g, square>> \in DOMAIN bySquare /\ bySquare[<<g, square>>] \in DOMAIN pieces
    THEN bySquare[<<g, square>>] ELSE UnknownPiece

\* uuid4(): the next identifier not yet given out
NewGameId == CHOOSE g \in GameIds : g \notin DOMAIN games /\
                 \A h \in GameIds : h < g => h \in DOMAIN games

Reply(op, g, code) ==
    [op |-> op, game |-> g, code |-> code, legal |-> FALSE, success |-> FALSE,
     executed |-> FALSE, bad |-> FALSE, same |-> TRUE,
     piece_id |-> UnknownPiece, morale_before |-> 0, morale_after |-> 0]

\* Exploration bound.  A step that changes lastReq alone (a rejected request,
\* a call on a scratch engine) leaves the store as it was, so whatever could
\* follow it is explored from the state before it: the run is not continued.
Open == lastReq.code = "ok" /\ lastReq.op \notin {"validate_move", "make_move_from_squares"}

\* create_game (store) behind the create_game endpoint
CreateGame(session, game_mode) ==
    /\ handled < MaxRequests
    /\ DOMAIN games # GameIds
    /\ LET g == NewGameId IN
       /\ games' = Put(games, g,
            [id |-> g,
             status |-> IF game_mode = "pvai" THEN "active" ELSE "waiting",
             game_mode |-> game_mode,
             share_code |-> g,
             fen |-> STARTING_FEN,
             turn |-> "white",
             white_player_id |-> session,
             black_player_id |-> IF game_mode = "pvai" THEN "ai" ELSE NoneStr,
             result |-> NoneStr])
       /\ pieces' = [pid \in (DOMAIN pieces) \cup PieceIdsOf(g) |->
            IF pid \in PieceIdsOf(g)
            THEN [id |-> pid, game_id |-> g,
                  color |-> STARTING_PIECES[pid[2]].color,
                  piece_type |-> STARTING_PIECES[pid[2]].piece_type,
                  square |-> STARTING_PIECES[pid[2]].square,
                  morale |-> 70, is_captured |-> FALSE]
            ELSE pieces[pid]]
       /\ bySquare' = [x \in (DOMAIN bySquare) \cup
                            {<<g, STARTING_PIECES[k].square>> : k \in DOMAIN STARTING_PIECES} |->
            IF x[1] = g
            THEN <<g, CHOOSE k \in DOMAIN STARTING_PIECES :
                         STARTING_PIECES[k].square = x[2]>>
            ELSE bySquare[x]]
       /\ messages' = Put(messages, g, <<"system">>)
       /\ moves' = Put(moves, g, <<>>)
       /\ persuasions' = Put(persuasions, g, <<>>)
       /\ lastReq' = [Reply("create", g, "ok") EXCEPT !.executed = FALSE]
       /\ handled' = handled + 1

\* faulty variant: the creator may join the game
JoinGame_OwnGame(g, session, share_code) ==
    IF g \notin DOMAIN games
    THEN lastReq' = Reply("join", g, "GAME_NOT_FOUND") /\ UNCHANGED <<storeVars, handled>>
    ELSE IF games[g].share_code # share_code
    THEN lastReq' = Reply("join", g, "INVALID_CODE") /\ UNCHANGED <<storeVars, handled>>
    ELSE IF games[g].status # "waiting"
    THEN lastReq' = Reply("join", g, "GAME_FULL") /\ UNCHANGED <<storeVars, handled>>
    ELSE /\ handled < MaxRequests
         /\ games' = [games EXCEPT ![g] =
                Merge(@, [black_player_id |-> session, status |-> "active"])]
         /\ messages' = [messages EXCEPT ![g] = Append(@, "system")]
         /\ lastReq' = Reply("join", g, "ok")
         /\ handled' = handled + 1
         /\ UNCHANGED <<pieces, moves, persuasions, bySquare>>

\* join_game; join_by_share_code differs only in how it finds the game
JoinGame(g, session, share_code) ==
    IF g \notin DOMAIN games
    THEN lastReq' = Reply("join", g, "GAME_NOT_FOUND") /\ UNCHANGED <<storeVars, handled>>
    ELSE IF games[g].share_code # share_code
    THEN lastReq' = Reply("join", g, "INVALID_CODE") /\ UNCHANGED <<storeVars, handled>>
    ELSE IF games[g].status # "waiting"
    THEN lastReq' = Reply("join", g, "GAME_FULL") /\ UNCHANGED <<storeVars, handled>>
    ELSE IF games[g].white_player_id = session
    THEN lastReq' = Reply("join", g, "GAME_FULL") /\ UNCHANGED <<storeVars, handled>>
    ELSE /\ handled < MaxRequests
         /\ games' = [games EXCEPT ![g] =
                Merge(@, [black_player_id |-> session, status |-> "active"])]
         /\ messages' = [messages EXCEPT ![g] = Append(@, "system")]
         /\ lastReq' = Reply("join", g, "ok")
         /\ handled' = handled + 1
         /\ UNCHANGED <<pieces, moves, persuasions, bySquare>>

\* the piece a move onto target captures, as the handlers look for it: the
\* first other piece of the game with that square that is not captured
CapturedPiece(ps, g, mover, target) ==
    LET gp == get_game_pieces(ps, g)
        hit == {k \in DOMAIN gp : /\ gp[k].square = target
                                  /\ gp[k].id # mover
                                  /\ ~gp[k].is_captured}
    IN IF hit = {} THEN UnknownPiece
       ELSE <<g, CHOOSE k \in hit : \A j \in hit : k <= j>>

\* the store updates of an executed move (both handlers): the move record,
\* the mover's square, the captured piece, the mover's morale, the game
ExecuteMove(g, session, piece, target, validation, new_morale) ==
    \E new_fen \in {make_move_from_squares(games[g].fen, piece.square, target).board} :
    \E game_result \in {get_game_result(new_fen)} :
    \E st1 \in {update_piece([pieces |-> pieces, bySquare |-> bySquare],
                              piece.id, [square |-> target])} :
    \E cp \in {CapturedPiece(st1.pieces, g, piece.id, target)} :
    \E st2 \in {IF validation.is_capture /\ cp # UnknownPiece
                 THEN update_piece(st1, cp, [is_captured |-> TRUE, square |-> NoneStr])
                 ELSE st1} :
    \E st3 \in {update_piece(st2, piece.id, [morale |-> new_morale])} :
    LET game == games[g]
        new_turn == IF game.turn = "white" THEN "black" ELSE "white"
        game_update == IF game_result # None
                       THEN [fen |-> new_fen, turn |-> new_turn,
                             status |-> "completed", result |-> game_result]
                       ELSE [fen |-> new_fen, turn |-> new_turn]
    IN /\ moves' = [moves EXCEPT ![g] = Append(@,
                        [piece_id |-> piece.id, player_id |-> session,
                         move_number |-> Len(moves[g]) + 1,
                         from_square |-> piece.square, to_square |-> target])]
       /\ pieces' = st3.pieces
       /\ bySquare' = st3.bySquare
       /\ games' = [games EXCEPT ![g] = Merge(@, game_update)]

\* draws of random.random() in the handlers
GameDraws == {1000, 6000, 9900}

\* faulty variant: the move is executed whatever the piece answered
CommandExecutes_Always(will_move) == TRUE

\* the move is executed when the piece agreed to it
CommandExecutes(will_move) == will_move

\* issue_command, up to the roll: the error code, or "ok"
CommandCheck(g, session, pid, target) ==
    IF g \notin DOMAIN games THEN "GAME_NOT_FOUND"
    ELSE IF games[g].status # "active" THEN "GAME_ENDED"
    ELSE LET game == games[g]
             is_white == game.white_player_id = session
             is_black == game.black_player_id = session
         IN IF \/ game.turn = "white" /\ ~is_white
               \/ game.turn = "black" /\ ~is_black
            THEN "NOT_YOUR_TURN"
            ELSE IF pid \notin DOMAIN pieces THEN "PIECE_NOT_FOUND"
            ELSE IF pieces[pid].is_captured THEN "PIECE_CAPTURED"
            ELSE IF pieces[pid].color # (IF is_white THEN "white" ELSE "black")
            THEN "FORBIDDEN"
            ELSE IF ~validate_move(game.fen, pieces[pid].square, target).legal
            THEN "INVALID_MOVE"
            ELSE "ok"

\* from_square -> to_square is no move the rules allow in pos: one of them
\* is no square, or no legal move of pos joins them
NoSuchMove(pos, from_square, to_square) ==
    \/ from_square \notin SquareNames
    \/ to_square \notin SquareNames
    \/ \A s \in BoardSquares, t \in BoardSquares, promotion \in BOOLEAN :
           \/ SQUARE_NAMES[s + 1] # from_square
           \/ SQUARE_NAMES[t + 1] # to_square
           \/ ~IsLegal(pos, [from |-> s, to |-> t, promotion |-> promotion])

BadMove(g, pid, target) == NoSuchMove(games[g].fen, pieces[pid].square, target)

IssueCommand(g, session, pid, target) ==
    LET code == CommandCheck(g, session, pid, target) IN
    IF code # "ok"
    THEN /\ lastReq' = [Reply("command", g, code) EXCEPT
                           !.bad = code = "INVALID_MOVE" /\ BadMove(g, pid, target)]
         /\ UNCHANGED <<storeVars, handled>>
    ELSE
    \E draw \in GameDraws :
    LET game == games[g]
        piece == pieces[pid]
        validation == validate_move(game.fen, piece.square, target)
        morale == piece.morale
        will_move == will_piece_obey(morale, validation.is_risky, piece.piece_type, draw)
        morale_change == IF will_move THEN 3 ELSE -2
    IN /\ handled < MaxRequests
       /\ handled' = handled + 1
       /\ lastReq' = [Reply("command", g, "ok") EXCEPT
                         !.legal = validation.legal, !.success = will_move,
                         !.executed = CommandExecutes(will_move),
                         !.bad = BadMove(g, pid, target),
                         !.piece_id = pid, !.morale_before = morale,
                         !.morale_after = apply_morale_change(morale, morale_change)]
       /\ IF CommandExecutes(will_move)
          THEN /\ ExecuteMove(g, session, piece, target, validation,
                              apply_morale_change(morale, morale_change))
               /\ messages' = [messages EXCEPT ![g] =
                      @ \o <<"player_command", "piece_response", "ai_analysis",
                             "king_taunt">>]
          ELSE /\ messages' = [messages EXCEPT ![g] =
                      @ \o <<"player_command", "piece_refusal">>]
               /\ UNCHANGED <<games, pieces, moves, bySquare>>
       /\ UNCHANGED persuasions

\* faulty variant: the record is not kept
add_persuasion_Dropped(g, data) == persuasions

\* add_persuasion (store)
add_persuasion(g, data) == [persuasions EXCEPT ![g] = Append(@, data)]

\* arguments a persuasion request carries
RequestArguments == {"short", "team"}

\* the move is executed when the piece was persuaded of a legal move
PersuasionExecutes(success, legal) == success /\ legal

PersuadePiece(g, session, pid, target, arg) ==
    IF g \notin DOMAIN games \/ (g \in DOMAIN games /\ games[g].status # "active")
    THEN lastReq' = Reply("persuade", g, "GAME_ENDED") /\ UNCHANGED <<storeVars, handled>>
    ELSE IF pid \notin DOMAIN pieces
    THEN lastReq' = Reply("persuade", g, "PIECE_NOT_FOUND") /\ UNCHANGED <<storeVars, handled>>
    ELSE
    LET game == games[g]
        piece == pieces[pid]
    IN
    \E validation \in {validate_move(game.fen, piece.square, target)} :
    \* evaluate_persuasion(...), trust_history at its default 0.5
    \E factors \in {persuasion_factors(arg, piece.piece_type, piece.morale,
                       validation.legal, validation.is_risky, 5000,
                       is_check(game.fen), get_material_balance(game.fen),
                       Len(moves[g]))} :
    \E inner \in GameDraws, outer \in GameDraws :
    LET pe_result == persuasion_result(factors, inner)
        success == outer < pe_result.probability
    IN /\ handled < MaxRequests
       /\ handled' = handled + 1
       /\ lastReq' = [Reply("persuade", g, "ok") EXCEPT
                         !.legal = validation.legal, !.success = success,
                         !.executed = PersuasionExecutes(success, validation.legal),
                         !.bad = BadMove(g, pid, target)]
       /\ messages' = [messages EXCEPT ![g] =
              @ \o <<"persuasion_attempt", "persuasion_result">>]
       /\ persuasions' = add_persuasion(g,
              [success |-> success, evaluation |-> [success |-> pe_result.success]])
       /\ IF PersuasionExecutes(success, validation.legal)
          THEN ExecuteMove(g, session, piece, target, validation,
                           apply_morale_change(piece.morale, 5))
          ELSE UNCHANGED <<games, pieces, moves, bySquare>>

\* a ChessEngine built on a game's position and asked to validate a move
\* (validate_move) or to make it (make_move_from_squares), as the unit tests do
EngineFromSquares == {"a2", "b1", "c4", "a5", "b4", "b3", "z9", NoneStr}

EngineCall(fn, g, from_square, to_square) ==
    /\ g \in DOMAIN games
    /\ LET pos == games[g].fen
           made == IF fn = "make_move_from_squares"
                   THEN make_move_from_squares(pos, from_square, to_square)
                   ELSE [result |-> validate_move(pos, from_square, to_square),
                         board |-> pos]
       IN lastReq' = [Reply(fn, g, IF made.result.legal THEN "ok" ELSE made.result.error)
                        EXCEPT !.legal = made.result.legal,
                               !.same = (made.board = pos),
                               !.bad = NoSuchMove(pos, from_square, to_square)]
    /\ UNCHANGED <<storeVars, handled>>

\* faulty variant: a game that has ended can still be resigned
NotActive_WaitingOnly(g) == g \notin DOMAIN games \/ games[g].status = "waiting"

\* not game or game["status"] != "active"
NotActive(g) == g \notin DOMAIN games \/ games[g].status # "active"

\* resign_game
ResignGame(g, session) ==
    IF NotActive(g)
    THEN lastReq' = Reply("resign", g, "GAME_ENDED") /\ UNCHANGED <<storeVars, handled>>
    ELSE LET is_white == games[g].white_player_id = session
             result == IF is_white THEN "black_wins" ELSE "white_wins"
         IN /\ handled < MaxRequests
            /\ games' = [games EXCEPT ![g] =
                   Merge(@, [status |-> "completed", result |-> result])]
            /\ messages' = [messages EXCEPT ![g] = Append(@, "system")]
            /\ lastReq' = Reply("resign", g, "ok")
            /\ handled' = handled + 1
            /\ UNCHANGED <<pieces, moves, persuasions, bySquare>>

\* the system messages of the draw handlers, by their content
DrawOffered == "system: Draw offered"
DrawAccepted == "system: Draw accepted"
DrawDeclined == "system: Draw declined"

\* offer_draw
OfferDraw(g, session) ==
    IF NotActive(g)
    THEN lastReq' = Reply("draw-offer", g, "GAME_ENDED") /\ UNCHANGED <<storeVars, handled>>
    ELSE /\ handled < MaxRequests
         /\ messages' = [messages EXCEPT ![g] = Append(@, DrawOffered)]
         /\ lastReq' = Reply("draw-offer", g, "ok")
         /\ handled' = handled + 1
         /\ UNCHANGED <<games, pieces, moves, persuasions, bySquare>>

\* respond_to_draw
RespondToDraw(g, accept) ==
    IF NotActive(g)
    THEN lastReq' = Reply("draw-respond", g, "GAME_ENDED") /\ UNCHANGED <<storeVars, handled>>
    ELSE /\ handled < MaxRequests
         /\ games' = IF accept
                      THEN [games EXCEPT ![g] =
                               Merge(@, [status |-> "completed", result |-> "draw"])]
                      ELSE games
         /\ messages' = [messages EXCEPT ![g] =
                Append(@, IF accept THEN DrawAccepted ELSE DrawDeclined)]
         /\ lastReq' = Reply("draw-respond", g, "ok")
         /\ handled' = handled + 1
         /\ UNCHANGED <<pieces, moves, persuasions, bySquare>>

GameInit ==
    /\ games = <<>>
    /\ pieces = <<>>
    /\ messages = <<>>
    /\ moves = <<>>
    /\ persuasions = <<>>
    /\ bySquare = <<>>
    /\ lastReq = Reply("init", 0, "ok")
    /\ handled = 0

----------------------------------------------------------------------------
(* GeminiService.get_piece_response and _call_with_retry *)

\* max_retries of _call_with_retry
MaxRetries == 2

Flows == 1..NumFlows
\* game_id = None
NoGame == 0

FALLBACK_RESPONSES ==
    [pawn |->
        [accept |-> <<"Okay, moving!", "Yes sir!", "On my way!", "For the team!", "I'll do my best!">>,
         refuse |-> <<"That's too dangerous!", "I don't want to go there!", "No way!", "I'll get captured!", "Can someone else do it?">>,
         high_morale |-> <<"Let's go! I'm feeling great!", "Unstoppable!", "To glory!">>,
         low_morale |-> <<"Do I have to?", "Fine... whatever.", "I guess...">>],
     knight |->
        [accept |-> <<"Let's ride!", "Easy!", "Watch this!", "A worthy challenge!", "Time to shine!">>,
         refuse |-> <<"That's beneath me.", "Find another way.", "Nope.", "That's a waste of my talents.", "I don't retreat!">>,
         high_morale |-> <<"Nobody can stop me!", "Born for this!", "Watch and learn!">>,
         low_morale |-> <<"My lance feels heavy today.", "If you insist...", "This had better work.">>],
     bishop |->
        [accept |-> <<"Strategically sound.", "A calculated move.", "I concur with this approach.", "The diagonal looks promising.", "Logical.">>,
         refuse |-> <<"That's tactically unsound.", "I need a logical reason.", "The risk-reward ratio is poor.", "I advise against this.", "Explain your reasoning.">>,
         high_morale |-> <<"A brilliant strategy!", "I see the whole picture!", "Masterful positioning!">>,
         low_morale |-> <<"This position is deteriorating.", "I question our strategy.", "Hmm... if you insist.">>],
     rook |->
        [accept |-> <<"Yes, commander.", "Moving out.", "Consider it done.", "As ordered.", "Holding position.">>,
         refuse |-> <<"I cannot comply.", "That goes against protocol.", "Negative.", "Too risky, sir.", "I need backup first.">>,
         high_morale |-> <<"Ready for anything!", "The fortress stands!", "Reporting for duty!">>,
         low_morale |-> <<"Morale is low...", "Running on fumes.", "Acknowledged... reluctantly.">>],
     queen |->
        [accept |-> <<"About time you asked!", "A queen's work is never done.", "Naturally.", "I'll handle this personally.", "As I intended.">>,
         refuse |-> <<"Absolutely not.", "Do you know what I'm worth?!", "That's a suicide mission!", "I refuse to be sacrificed.", "Find someone expendable.">>,
         high_morale |-> <<"I AM this army!", "Nobody can match me!", "Bow before my power!">>,
         low_morale |-> <<"I've been neglected...", "Is anyone protecting ME?", "I expected better leadership.">>],
     king |->
        [accept |-> <<"If I must.", "For the kingdom.", "Very well.", "I'll be careful.">>,
         refuse |-> <<"Are you TRYING to get me killed?!", "TOO DANGEROUS!", "I'm the KING!", "Find another way!", "PROTECT ME!">>,
         high_morale |-> <<"My army is strong!", "We will prevail!", "I trust my pieces!">>,
         low_morale |-> <<"We're doomed...", "Is it time to resign?", "PANIC!">>]]

\* _fallback_piece_response: the list random.choice draws from
FallbackTemplates(piece_type, morale, will_move) ==
    LET templates == IF piece_type \in DOMAIN FALLBACK_RESPONSES
                     THEN FALLBACK_RESPONSES[piece_type]
                     ELSE FALLBACK_RESPONSES["pawn"]
    IN IF will_move
       THEN (IF morale >= 70
             THEN (IF "high_morale" \in DOMAIN templates
                   THEN templates["high_morale"] ELSE templates["accept"])
             ELSE templates["accept"])
       ELSE (IF morale <= 30
             THEN (IF "low_morale" \in DOMAIN templates
                   THEN templates["low_morale"] ELSE templates["refuse"])
             ELSE templates["refuse"])

\* random.randint(2, 8) / random.randint(-5, -1)
FallbackDeltas(will_move) == IF will_move THEN 2..8 ELSE (-5)..(-1)

\* PieceResponseOutput: the field constraint of morale_change
PieceResponseOutputValid(morale_change) == -15 <= morale_change /\ morale_change <= 15

NoOutput ==
    [kind |-> "none", will_move |-> FALSE, response_text |-> "", morale_change |-> 0]

\* _fallback_piece_response with the values its two random calls return
fallback_piece_response(piece_type, morale, will_move, pick, delta) ==
    IF PieceResponseOutputValid(delta)
    THEN [kind |-> "fallback", will_move |-> will_move,
          response_text |-> FallbackTemplates(piece_type, morale, will_move)[pick],
          morale_change |-> delta]
    ELSE [NoOutput EXCEPT !.kind = "raised"]

\* what one remote attempt does: it answers, or it raises
\*   TimeoutError, an error carrying response.status_code, ValueError (an
\*   invalid response), another Exception, or the task is cancelled
\*   (asyncio.CancelledError, which is no Exception)
Answer == [kind |-> "ok", status |-> 0]
HttpStatuses == {400, 429, 499, 500, 503}
RemoteFailures ==
    {[kind |-> k, status |-> 0] : k \in {"TimeoutError", "ValueError", "Exception"}}
    \cup {[kind |-> "HTTPError", status |-> c] : c \in HttpStatuses}
Cancelled == [kind |-> "CancelledError", status |-> 0]
Outcomes == {Answer, Cancelled} \cup RemoteFailures

\* faulty variant: only a timeout is tried again
Retryable_TimeoutOnly(outcome) == outcome.kind = "TimeoutError"

\* _call_with_retry: the failure is one of those the loop tries again
Retryable(outcome) ==
    \/ outcome.kind = "TimeoutError"
    \/ outcome.kind = "HTTPError" /\ (outcome.status >= 500 \/ outcome.status = 429)

\* faulty variant: one pass more than the budget
LastAttempt_OneMore(attempt) == attempt = MaxRetries + 1

\* _call_with_retry: attempt == max_retries
LastAttempt(attempt) == attempt = MaxRetries

\* _call_with_retry: wait_time = 2 ** attempt
wait_time(attempt) == 2 ^ attempt

\* faulty variant: the clause for Exception is missing
Caught_Narrow(outcome) == outcome.kind \in {"TimeoutError", "ValueError"}

\* get_piece_response: the except clauses (TimeoutError, ValueError, Exception)
Caught(outcome) ==
    outcome.kind \in {"TimeoutError", "ValueError", "HTTPError", "Exception"}

\* PieceResponseInput: the field constraint of morale
PieceResponseInputValid(morale) == 0 <= morale /\ morale <= 100

IdleFlow ==
    [pc |-> "idle", game |-> NoGame, move |-> 1, piece_type |-> "pawn", morale |-> 70,
     will_move |-> FALSE, attempt |-> 0, calls |-> 0, timeouts |-> 0, waits |-> <<>>,
     declined |-> FALSE, last |-> Answer, out |-> NoOutput]

\* return self._fallback_piece_response(...), for flow f whose frame is fr;
\* picks and deltas narrow what the two random calls may return
ReturnFallback(f, fr, picks, deltas) ==
    \E pick \in DOMAIN FallbackTemplates(fr.piece_type, fr.morale, fr.will_move) \cap picks,
       delta \in FallbackDeltas(fr.will_move) \cap deltas :
        flows' = [flows EXCEPT ![f] =
            [fr EXCEPT !.pc = "done",
                       !.out = fallback_piece_response(fr.piece_type, fr.morale,
                                                       fr.will_move, pick, delta)]]

\* record_usage(game_id, input_tokens, output_tokens)
record_usage(g, input_tokens, output_tokens) ==
    [ledger EXCEPT ![g] = [calls |-> @.calls + 1,
                           input_tokens |-> @.input_tokens + input_tokens,
                           output_tokens |-> @.output_tokens + output_tokens]]

\* faulty variant: the governor's answer is not looked at
GovernorDeclines_Ignored(game, move) == FALSE

\* get_piece_response: game_id is given and the governor's check is not allowed
GovernorDeclines(game, move) == game # NoGame /\ ~CheckResult(game, move).allowed

\* faulty variant: the governor gives up the event loop after its three tests
GovernorYields_AfterCheck == TRUE

\* check_and_increment: the function gives up the event loop between its
\* tests and its increments (it is a plain def: it does not)
GovernorYields == FALSE

\* check_and_increment, the increments alone
Increment(g, m) ==
    /\ moveCalls' = [moveCalls EXCEPT ![g][m] = @ + 1]
    /\ gameCalls' = [gameCalls EXCEPT ![g] = @ + 1]
    /\ dailyGames' = [TouchBucket(today) EXCEPT ![today] = @ \cup {g}]
    /\ allowedRun' = [allowedRun EXCEPT ![g][m] = @ + 1]
    /\ limOut' = [limOut EXCEPT !.op = "increment", !.game = g, !.move = m]
    /\ UNCHANGED today

\* get_piece_response after an allowed check: the construction of the input
AfterCheck(f, fr, picks, deltas) ==
    IF ~PieceResponseInputValid(fr.morale)
    THEN ReturnFallback(f, [fr EXCEPT !.last = [kind |-> "ValueError", status |-> 0]],
                        picks, deltas)
    ELSE flows' = [flows EXCEPT ![f] = [fr EXCEPT !.pc = "calling"]]

\* get_piece_response up to the first remote attempt: the governor's check,
\* the construction of the input, and the fallback when either stops the call
StartResponse(f, game, move, piece_type, morale, will_move, picks, deltas) ==
    /\ flows[f].pc = "idle"
    /\ LET fr == [IdleFlow EXCEPT !.game = game, !.move = move,
                                  !.piece_type = piece_type, !.morale = morale,
                                  !.will_move = will_move]
       IN IF ~agentsInitialized
          THEN /\ ReturnFallback(f, fr, picks, deltas)
               /\ UNCHANGED limVars
          ELSE IF game # NoGame /\ GovernorYields
          THEN /\ flows' = [flows EXCEPT ![f] =
                      [fr EXCEPT !.pc = "checked",
                                 !.declined = GovernorDeclines(game, move)]]
               /\ UNCHANGED limVars
          ELSE /\ IF game # NoGame
                  THEN CheckAndIncrement(game, move)
                  ELSE UNCHANGED limVars
               /\ IF GovernorDeclines(game, move)
                  THEN ReturnFallback(f, [fr EXCEPT !.declined = TRUE], picks, deltas)
                  ELSE AfterCheck(f, fr, picks, deltas)
    /\ UNCHANGED <<agentsInitialized, ledger, remoteCalls, answered>>

\* one pass of the loop of _call_with_retry, and what get_piece_response does
\* with the result or the exception that leaves the loop
Attempt(f, outcome, input_tokens, output_tokens, picks, deltas) ==
    IF flows[f].pc = "checked"
    THEN \* a governor that gave up the event loop goes on
         /\ IF flows[f].declined
            THEN /\ ReturnFallback(f, flows[f], picks, deltas)
                 /\ UNCHANGED limVars
            ELSE /\ Increment(flows[f].game, flows[f].move)
                 /\ AfterCheck(f, flows[f], picks, deltas)
         /\ UNCHANGED <<agentsInitialized, ledger, remoteCalls, answered>>
    ELSE
    /\ flows[f].pc = "calling"
    /\ LET fr == [flows[f] EXCEPT !.calls = @ + 1, !.last = outcome,
                                  !.timeouts = IF outcome.kind = "TimeoutError"
                                               THEN @ + 1 ELSE @]
       IN /\ remoteCalls' = IF fr.game # NoGame
                            THEN [remoteCalls EXCEPT ![fr.game][fr.move] = @ + 1]
                            ELSE remoteCalls
          /\ IF outcome.kind = "ok"
             THEN /\ ledger' = IF fr.game # NoGame
                               THEN record_usage(fr.game, input_tokens, output_tokens)
                               ELSE ledger
                  /\ answered' = IF fr.game # NoGame
                                 THEN [answered EXCEPT ![fr.game] = @ + 1]
                                 ELSE answered
                  /\ flows' = [flows EXCEPT ![f] =
                         [fr EXCEPT !.pc = "done",
                                    !.out = [kind |-> "generated", will_move |-> fr.will_move,
                                             response_text |-> "generated text",
                                             morale_change |-> 0]]]
             ELSE /\ UNCHANGED <<ledger, answered>>
                  /\ IF Retryable(outcome) /\ ~LastAttempt(fr.attempt)
                     THEN \* await asyncio.sleep(2 ** attempt), then the next pass
                          flows' = [flows EXCEPT ![f] =
                              [fr EXCEPT !.waits = Append(@, wait_time(fr.attempt)),
                                         !.attempt = @ + 1]]
                     ELSE IF Caught(outcome)
                     THEN ReturnFallback(f, fr, picks, deltas)
                     ELSE flows' = [flows EXCEPT ![f] =
                              [fr EXCEPT !.pc = "done", !.out.kind = "raised"]]
    /\ UNCHANGED <<limVars, agentsInitialized>>

\* the caller has its response; the flow is free for the next call
Return(f) ==
    /\ flows[f].pc = "done"
    /\ flows' = [flows EXCEPT ![f] = IdleFlow]
    /\ UNCHANGED <<limVars, agentsInitialized, ledger, remoteCalls, answered>>

\* a check made on behalf of another get_piece_response call, whose remote
\* attempts are not followed
OtherCheck(g, m) ==
    /\ CheckAndIncrement(g, m)
    /\ UNCHANGED respVars

RespInit ==
    /\ agentsInitialized \in BOOLEAN
    /\ flows = [f \in Flows |-> IdleFlow]
    /\ ledger = [g \in LimGameIds |-> [calls |-> 0, input_tokens |-> 0, output_tokens |-> 0]]
    /\ remoteCalls = [g \in LimGameIds |-> [m \in MoveNumbers |-> 0]]
    /\ answered = [g \in LimGameIds |-> 0]

RespIdle ==
    /\ agentsInitialized = FALSE
    /\ flows = [f \in Flows |-> IdleFlow]
    /\ ledger = [g \in LimGameIds |-> [calls |-> 0, input_tokens |-> 0, output_tokens |-> 0]]
    /\ remoteCalls = [g \in LimGameIds |-> [m \in MoveNumbers |-> 0]]
    /\ answered = [g \in LimGameIds |-> 0]

----------------------------------------------------------------------------
(* The command handlers under requests that arrive together *)

Slots == 1..MaxInflight
\* the games the requests are about, both created before
ServerGames == {1, 2}

\* faulty variant: the handler gives up the event loop at its store calls
HandlerYields_AtStore == TRUE

\* issue_command, persuade_piece: the handler gives up the event loop between
\* its reads of the store and its writes (the bodies hold no await)
HandlerYields == FALSE

IdleRequest ==
    [pc |-> "none", op |-> "command", game |-> 1, session |-> "s1",
     piece_id |-> UnknownPiece, target |-> NoneStr, view |-> <<>>]

\* a request reaches the server and takes the next free slot
Submit(s, op, g, session, pid, target) ==
    /\ inflight[s].pc = "none"
    /\ \A t \in Slots : t < s => inflight[t].pc # "none"
    /\ inflight' = [inflight EXCEPT ![s] =
           [pc |-> "pending", op |-> op, game |-> g, session |-> session,
            piece_id |-> pid, target |-> target, view |-> <<>>]]
    /\ UNCHANGED gameVars

\* the handler of a request, from its first line to its last
Handle(fr) ==
    IF fr.op = "command"
    THEN IssueCommand(fr.game, fr.session, fr.piece_id, fr.target)
    ELSE PersuadePiece(fr.game, fr.session, fr.piece_id, fr.target, "team")

\* the handler raises before it writes anything
Rejected(fr) ==
    IF fr.op = "command"
    THEN CommandCheck(fr.game, fr.session, fr.piece_id, fr.target) # "ok"
    ELSE \/ fr.game \notin DOMAIN games
         \/ games[fr.game].status # "active"
         \/ fr.piece_id \notin DOMAIN pieces

\* the store updates of an executed move, computed from the game record the
\* handler read at its start
ExecuteMoveFrom(game, g, session, piece, target, validation, new_morale) ==
    \E new_fen \in {make_move_from_squares(game.fen, piece.square, target).board} :
    \E game_result \in {get_game_result(new_fen)} :
    \E st1 \in {update_piece([pieces |-> pieces, bySquare |-> bySquare],
                              piece.id, [square |-> target])} :
    \E cp \in {CapturedPiece(st1.pieces, g, piece.id, target)} :
    \E st2 \in {IF validation.is_capture /\ cp # UnknownPiece
                 THEN update_piece(st1, cp, [is_captured |-> TRUE, square |-> NoneStr])
                 ELSE st1} :
    \E st3 \in {update_piece(st2, piece.id, [morale |-> new_morale])} :
    LET new_turn == IF game.turn = "white" THEN "black" ELSE "white"
        game_update == IF game_result # None
                       THEN [fen |-> new_fen, turn |-> new_turn,
                             status |-> "completed", result |-> game_result]
                       ELSE [fen |-> new_fen, turn |-> new_turn]
    IN /\ moves' = [moves EXCEPT ![g] = Append(@,
                        [piece_id |-> piece.id, player_id |-> session,
                         move_number |-> Len(moves[g]) + 1,
                         from_square |-> piece.square, to_square |-> target])]
       /\ pieces' = st3.pieces
       /\ bySquare' = st3.bySquare
       /\ games' = [games EXCEPT ![g] = Merge(@, game_update)]

\* the second half of a handler that gave up the event loop after its reads:
\* the roll and the writes, from the game and the piece it read
WriteFromView(fr) ==
    LET g == fr.game
        game == fr.view[1]
        piece == fr.view[2]
    IN
    \E validation \in {validate_move(game.fen, piece.square, fr.target)} :
    \E inner \in GameDraws, outer \in GameDraws :
    LET success ==
            IF fr.op = "command"
            THEN will_piece_obey(piece.morale, validation.is_risky, piece.piece_type, outer)
            ELSE outer < persuasion_result(
                             persuasion_factors("team", piece.piece_type, piece.morale,
                                 validation.legal, validation.is_risky, 5000,
                                 is_check(game.fen), get_material_balance(game.fen),
                                 Len(moves[g])), inner).probability
        pe_success ==
            inner < persuasion_factors("team", piece.piece_type, piece.morale,
                        validation.legal, validation.is_risky, 5000,
                        is_check(game.fen), get_material_balance(game.fen),
                        Len(moves[g])).probability
        executes == IF fr.op = "command"
                    THEN CommandExecutes(success)
                    ELSE PersuasionExecutes(success, validation.legal)
    IN /\ handled < MaxRequests
       /\ handled' = handled + 1
       /\ lastReq' = [Reply(fr.op, g, "ok") EXCEPT
                         !.legal = validation.legal, !.success = success,
                         !.executed = executes]
       /\ messages' = [messages EXCEPT ![g] = @ \o <<"request", "answer">>]
       /\ persuasions' = IF fr.op = "persuade"
                         THEN add_persuasion(g, [success |-> success,
                                                 evaluation |-> [success |-> pe_success]])
                         ELSE persuasions
       /\ IF executes
          THEN ExecuteMoveFrom(game, g, fr.session, piece, fr.target, validation,
                   apply_morale_change(piece.morale, IF fr.op = "command" THEN 3 ELSE 5))
          ELSE UNCHANGED <<games, pieces, moves, bySquare>>

\* the event loop runs the handler of a request it holds.  The handler runs
\* from its first line to its last unless it gives up the event loop.
Run(s) ==
    LET fr == inflight[s] IN
    /\ fr.pc \in {"pending", "running"}
    /\ IF fr.pc = "pending" /\ (~HandlerYields \/ Rejected(fr))
       THEN /\ Handle(fr)
            /\ inflight' = [inflight EXCEPT ![s].pc = "done"]
       ELSE IF fr.pc = "pending"
       THEN /\ inflight' = [inflight EXCEPT
                   ![s].pc = "running",
                   ![s].view = <<games[fr.game], pieces[fr.piece_id]>>]
            /\ UNCHANGED gameVars
       ELSE /\ WriteFromView(fr)
            /\ inflight' = [inflight EXCEPT ![s].pc = "done"]

\* the store after create_game has made the games of ServerGames for s1
ServerInit ==
    /\ games = [g \in ServerGames |->
            [id |-> g, status |-> "active", game_mode |-> "pvai", share_code |-> g,
             fen |-> STARTING_FEN, turn |-> "white", white_player_id |-> "s1",
             black_player_id |-> "ai", result |-> NoneStr]]
    /\ pieces = [pid \in UNION {PieceIdsOf(g) : g \in ServerGames} |->
            [id |-> pid, game_id |-> pid[1],
             color |-> STARTING_PIECES[pid[2]].color,
             piece_type |-> STARTING_PIECES[pid[2]].piece_type,
             square |-> STARTING_PIECES[pid[2]].square,
             morale |-> 70, is_captured |-> FALSE]]
    /\ bySquare = [x \in {<<g, STARTING_PIECES[k].square>> :
                             g \in ServerGames, k \in DOMAIN STARTING_PIECES} |->
            <<x[1], CHOOSE k \in DOMAIN STARTING_PIECES :
                        STARTING_PIECES[k].square = x[2]>>]
    /\ messages = [g \in ServerGames |-> <<"system">>]
    /\ moves = [g \in ServerGames |-> <<>>]
    /\ persuasions = [g \in ServerGames |-> <<>>]
    /\ lastReq = Reply("create", 2, "ok")
    /\ handled = 0
    /\ inflight = [s \in Slots |-> IdleRequest]

SrvIdle == inflight = [s \in Slots |-> IdleRequest]

----------------------------------------------------------------------------
(* TTLCache, GeminiService.analyze_move and the other direct remote calls *)

TTL_SECONDS == 300

\* f"analysis:{md5(fen_after)}": one key per resulting position
cache_key(fen_after) == <<"analysis", fen_after>>

\* faulty variant: an entry is still served at the moment its time is up
Fresh_Inclusive(now, timestamp) == now - timestamp <= TTL_SECONDS

\* datetime.now() - timestamp < self._ttl
Fresh(now, timestamp) == now - timestamp < TTL_SECONDS

\* None, where an analysis is expected
NoAnalysis == [kind |-> "none", at |-> 0]

\* TTLCache.get: the value, or None
TTLCache_get(key) ==
    IF key \in DOMAIN analysisCache /\ Fresh(clock, analysisCache[key].timestamp)
    THEN analysisCache[key].value
    ELSE NoAnalysis

\* TTLCache.get: the entry found stale is deleted
AfterGet(key) ==
    IF key \in DOMAIN analysisCache /\ ~Fresh(clock, analysisCache[key].timestamp)
    THEN Drop(analysisCache, key)
    ELSE analysisCache

\* TTLCache.set
TTLCache_set(cache, key, value) == Put(cache, key, [timestamp |-> clock, value |-> value])

SvcIdle ==
    [fn |-> "none", key |-> <<"analysis", None>>, discarded |-> FALSE, remote |-> FALSE,
     source |-> "none", value |-> NoAnalysis]

\* analyze_move; the remote call is taken to end at the time it began
AnalyzeMove(fen_after, outcome) ==
    LET key == cache_key(fen_after)
        cached == TTLCache_get(key)
        out == [SvcIdle EXCEPT !.fn = "analyze_move", !.key = key,
                               !.discarded = AfterGet(key) # analysisCache]
    IN /\ IF cached # NoAnalysis
          THEN /\ analysisCache' = analysisCache
               /\ svcOut' = [out EXCEPT !.source = "cache", !.value = cached]
          ELSE IF agentsInitialized
          THEN IF outcome.kind = "ok"
               THEN LET data == [kind |-> "generated", at |-> clock]
                    IN /\ analysisCache' = TTLCache_set(AfterGet(key), key, data)
                       /\ svcOut' = [out EXCEPT !.remote = TRUE, !.source = "generated",
                                                !.value = data]
               ELSE /\ analysisCache' = AfterGet(key)
                    /\ svcOut' = [out EXCEPT !.remote = TRUE,
                                      !.source = IF outcome = Cancelled THEN "raised"
                                                 ELSE "fallback"]
          ELSE /\ analysisCache' = AfterGet(key)
               /\ svcOut' = [out EXCEPT !.source = "fallback"]
       /\ UNCHANGED clock

\* evaluate_persuasion, generate_taunt (when should_taunt holds) and
\* create_custom_piece: the agent is run if there is one, else the fallback
DirectCalls == {"evaluate_persuasion", "generate_taunt", "create_custom_piece"}

DirectCall(fn, outcome) ==
    /\ svcOut' = [SvcIdle EXCEPT !.fn = fn,
                     !.remote = agentsInitialized,
                     !.source = IF agentsInitialized /\ outcome.kind = "ok" THEN "generated"
                                ELSE IF agentsInitialized /\ outcome = Cancelled THEN "raised"
                                ELSE "fallback"]
    /\ UNCHANGED <<clock, analysisCache>>

\* time passes
Tick(seconds) ==
    /\ clock + seconds <= MaxClock
    /\ clock' = clock + seconds
    /\ svcOut' = [SvcIdle EXCEPT !.fn = "tick"]
    /\ UNCHANGED analysisCache

CacheInit ==
    /\ clock = 0
    /\ analysisCache = <<>>
    /\ svcOut = SvcIdle

CacheIdle == CacheInit

----------------------------------------------------------------------------
(* InMemoryRateLimiter and RateLimitMiddleware.dispatch *)

\* RATE_LIMITS: path pattern -> (max_requests, window_seconds); the code has
\* (30, 60), (60, 60) and (10, 60), scaled down here
RATE_LIMITS ==
    [command |-> [max_requests |-> 2, window_seconds |-> 3],
     ai |-> [max_requests |-> 1, window_seconds |-> 2]]

\* the keys f"{session_id}:{path}" of the requests that arrive, by their rule
RateKeys == {<<"s1", "command">>, <<"s2", "ai">>}

\* _get_rate_limit
get_rate_limit(key) == RATE_LIMITS[key[2]]

\* faulty variant: a request made exactly window_seconds ago is dropped too
Stale_Inclusive(timestamp, cutoff) == timestamp <= cutoff

\* request_queue[0] < cutoff
Stale(timestamp, cutoff) == timestamp < cutoff

\* while queue and queue[0] < cutoff: queue.popleft()
RECURSIVE PopOld(_, _)
PopOld(queue, cutoff) ==
    IF queue # <<>> /\ Stale(Head(queue), cutoff)
    THEN PopOld(Tail(queue), cutoff)
    ELSE queue

\* clear_old_entries on the dict of queues
clear_old_entries(reqs, max_age_seconds) ==
    LET cutoff == timeNow - max_age_seconds
        kept == {key \in DOMAIN reqs : PopOld(reqs[key], cutoff) # <<>>}
    IN [key \in kept |-> PopOld(reqs[key], cutoff)]

\* check_rate_limit: the dict of queues after the call and the returned pair
check_rate_limit(key, max_requests, window_seconds) ==
    LET cutoff == timeNow - window_seconds
        request_queue == PopOld(IF key \in DOMAIN requests THEN requests[key] ELSE <<>>,
                                cutoff)
    IN IF Len(request_queue) >= max_requests
       THEN [requests |-> Put(requests, key, request_queue),
             is_allowed |-> FALSE,
             retry_after |-> (request_queue[1] + window_seconds - timeNow) + 1]
       ELSE [requests |-> Put(requests, key, Append(request_queue, timeNow)),
             is_allowed |-> TRUE,
             retry_after |-> 0]

\* dispatch up to call_next, for a request with a rate-limit rule: the check
\* and, for an allowed request whose key hashes to a multiple of 100, the
\* sweep of old entries
Dispatch(key, sweeps) ==
    LET rate_limit == get_rate_limit(key)
        checked == check_rate_limit(key, rate_limit.max_requests,
                                    rate_limit.window_seconds)
    IN /\ requests' = IF checked.is_allowed /\ sweeps
                       THEN clear_old_entries(checked.requests, MaxAgeSeconds)
                       ELSE checked.requests
       /\ allowedLog' = IF checked.is_allowed
                         THEN [allowedLog EXCEPT ![key] = Append(@, timeNow)]
                         ELSE allowedLog
       /\ rateOut' = [op |-> "check", key |-> key, is_allowed |-> checked.is_allowed,
                      retry_after |-> checked.retry_after, at |-> timeNow]
       /\ UNCHANGED timeNow

\* time passes
Elapse(seconds) ==
    /\ timeNow + seconds <= MaxTime
    /\ timeNow' = timeNow + seconds
    /\ rateOut' = [rateOut EXCEPT !.op = "elapse"]
    /\ UNCHANGED <<requests, allowedLog>>

RateInit ==
    /\ timeNow = 0
    /\ requests = <<>>
    /\ allowedLog = [key \in RateKeys |-> <<>>]
    /\ rateOut = [op |-> "init", key |-> <<"s1", "command">>, is_allowed |-> FALSE,
                  retry_after |-> 0, at |-> 0]

RateIdle == RateInit

----------------------------------------------------------------------------
(* Specifications: each drives one component and leaves the others idle *)

LimIdle == LimInit

MoraleIdle ==
    /\ pieceMorale = 70
    /\ moraleLog = [event |-> "game_start", change |-> 0, before |-> 70, after |-> 70]

ObeyIdle ==
    /\ obeyIn = [morale |-> 70, is_risky |-> FALSE, piece_type |-> "pawn", draw |-> 0]
    /\ obeyOut = [done |-> FALSE, obey |-> FALSE]

PersIdle ==
    /\ persIn = [argument |-> "empty", piece_type |-> "pawn", morale |-> 70,
                 is_claim_accurate |-> FALSE, is_risky |-> FALSE,
                 trust_history |-> 5000, is_check |-> FALSE, material_balance |-> 0,
                 move_count |-> 0, draw |-> 0]
    /\ persOut = [done |-> FALSE, result |-> NoEvaluation]

GameIdle == GameInit

\* the governor under checks, resets and the passing of days
LimNext ==
    \/ \E g \in LimGameIds, m \in MoveNumbers :
           CheckAndIncrement(g, m) /\ UNCHANGED <<morVars, obeyVars, persVars, gameVars, respVars, srvVars, cacheVars, rateVars>>
    \/ \E g \in LimGameIds : ResetGame(g) /\ UNCHANGED <<morVars, obeyVars, persVars, gameVars, respVars, srvVars, cacheVars, rateVars>>
    \/ Midnight /\ UNCHANGED <<morVars, obeyVars, persVars, gameVars, respVars, srvVars, cacheVars, rateVars>>

LimStart == LimInit /\ MoraleIdle /\ ObeyIdle /\ PersIdle /\ GameIdle /\ RespIdle /\ SrvIdle /\ CacheIdle /\ RateIdle

SpecLimiter == LimStart /\ [][LimNext]_vars

\* the governor with its retention sweep, for three games: the first is
\* checked for two moves, the others for one
SweepGames == {1, 2, 3}
SweepMoves(g) == IF g = 1 THEN {1, 2} ELSE {1}

SweepNext ==
    \/ \E g \in SweepGames : \E m \in SweepMoves(g) :
           CheckAndIncrement(g, m) /\ UNCHANGED <<morVars, obeyVars, persVars, gameVars, respVars, srvVars, cacheVars, rateVars>>
    \/ \E g \in SweepGames : ResetGame(g) /\ UNCHANGED <<morVars, obeyVars, persVars, gameVars, respVars, srvVars, cacheVars, rateVars>>
    \/ Midnight /\ UNCHANGED <<morVars, obeyVars, persVars, gameVars, respVars, srvVars, cacheVars, rateVars>>
    \/ \E days_to_keep \in KeepDays :
           CleanupOldData(days_to_keep)
           /\ UNCHANGED <<morVars, obeyVars, persVars, gameVars, respVars, srvVars, cacheVars, rateVars>>

SweepStart == LimInit /\ MoraleIdle /\ ObeyIdle /\ PersIdle /\ GameIdle /\ RespIdle /\ SrvIdle /\ CacheIdle /\ RateIdle

SpecSweep == SweepStart /\ [][SweepNext]_vars

\* the retention sweep on 2024-01-15 over buckets of 2024-01-01, -10, -14 and
\* -15 (dates as days of that January), each absent or holding one or two
\* games, with checks made before and after the sweeps
RetentionToday == 15
RetentionDates == {1, 10, 14, 15}
RetentionBuckets == {{1}, {1, 2}}
RetentionKeepDays == {0, 1, 5, 7, 14}

RetentionNext ==
    \/ \E g \in SweepGames :
           CheckAndIncrement(g, 1) /\ UNCHANGED <<morVars, obeyVars, persVars, gameVars, respVars, srvVars, cacheVars, rateVars>>
    \/ \E days_to_keep \in RetentionKeepDays :
           CleanupOldData(days_to_keep)
           /\ UNCHANGED <<morVars, obeyVars, persVars, gameVars, respVars, srvVars, cacheVars, rateVars>>

RetentionStart ==
    /\ moveCalls = [g \in LimGameIds |-> [m \in MoveNumbers |-> 0]]
    /\ gameCalls = [g \in LimGameIds |-> 0]
    /\ allowedRun = [g \in LimGameIds |-> [m \in MoveNumbers |-> 0]]
    /\ today = RetentionToday
    /\ \E dates \in SUBSET RetentionDates : dailyGames \in [dates -> RetentionBuckets]
    /\ limOut = [op |-> "init", game |-> 1, move |-> 1, allowed |-> FALSE, reason |-> None,
                 moveBefore |-> 0, gameBefore |-> 0, runBefore |-> 0, gameRunBefore |-> 0,
                 counted |-> FALSE, bucketBefore |-> 0,
                 days_to_keep |-> 0, removed |-> {}]
    /\ MoraleIdle /\ ObeyIdle /\ PersIdle /\ GameIdle /\ RespIdle /\ SrvIdle /\ CacheIdle /\ RateIdle

SpecRetention == RetentionStart /\ [][RetentionNext]_vars

\* one piece under any sequence of morale events
MoraleNext ==
    \E ev \in EventKinds, personality \in Personalities :
        MoraleEvent(ev, personality) /\ UNCHANGED <<limVars, obeyVars, persVars, gameVars, respVars, srvVars, cacheVars, rateVars>>

MoraleStart == MoraleInit /\ LimIdle /\ ObeyIdle /\ PersIdle /\ GameIdle /\ RespIdle /\ SrvIdle /\ CacheIdle /\ RateIdle

SpecMorale == MoraleStart /\ [][MoraleNext]_vars

\* one obedience roll on any input
ObeyNext == ObeyCall /\ UNCHANGED <<limVars, morVars, persVars, gameVars, respVars, srvVars, cacheVars, rateVars>>

ObeyStart == ObeyInit /\ LimIdle /\ MoraleIdle /\ PersIdle /\ GameIdle /\ RespIdle /\ SrvIdle /\ CacheIdle /\ RateIdle

SpecObey == ObeyStart /\ [][ObeyNext]_vars

\* one persuasion evaluation on any input
PersNext == PersCall /\ UNCHANGED <<limVars, morVars, obeyVars, gameVars, respVars, srvVars, cacheVars, rateVars>>

PersStart == PersInit /\ LimIdle /\ MoraleIdle /\ ObeyIdle /\ GameIdle /\ RespIdle /\ SrvIdle /\ CacheIdle /\ RateIdle

SpecPersuasion == PersStart /\ [][PersNext]_vars

\* the store under the handlers of routers/game.py
GameNext ==
    \/ Open /\ \E session \in Sessions, game_mode \in {"pvai", "pvp"} :
           CreateGame(session, game_mode) /\ UNCHANGED <<limVars, morVars, obeyVars, persVars, respVars, srvVars, cacheVars, rateVars>>
    \/ Open /\ \E g \in GameIds, session \in Sessions, share_code \in GameIds :
           JoinGame(g, session, share_code) /\ UNCHANGED <<limVars, morVars, obeyVars, persVars, respVars, srvVars, cacheVars, rateVars>>
    \/ Open /\ \E g \in GameIds, session \in Sessions, pid \in RequestPieceIds,
          target \in RequestSquares :
           IssueCommand(g, session, pid, target)
           /\ UNCHANGED <<limVars, morVars, obeyVars, persVars, respVars, srvVars, cacheVars, rateVars>>
    \/ Open /\ \E g \in GameIds, session \in Sessions, pid \in RequestPieceIds,
          target \in RequestSquares, arg \in RequestArguments :
           PersuadePiece(g, session, pid, target, arg)
           /\ UNCHANGED <<limVars, morVars, obeyVars, persVars, respVars, srvVars, cacheVars, rateVars>>
    \/ Open /\ \E fn \in {"validate_move", "make_move_from_squares"}, g \in GameIds,
          from_square \in EngineFromSquares, to_square \in RequestSquares :
           EngineCall(fn, g, from_square, to_square)
           /\ UNCHANGED <<limVars, morVars, obeyVars, persVars, respVars, srvVars, cacheVars, rateVars>>

GameStart == GameInit /\ LimIdle /\ MoraleIdle /\ ObeyIdle /\ PersIdle /\ RespIdle /\ SrvIdle /\ CacheIdle /\ RateIdle

SpecGame == GameStart /\ [][GameNext]_vars

\* the requests that arrive together: commands and persuasions, for either
\* game, that send the a2 pawn of either game to a3 or the black pawn of the
\* first game to b3
ServerMoves ==
    {[piece_id |-> <<1, 2>>, target |-> "a3"],
     [piece_id |-> <<2, 2>>, target |-> "a3"],
     [piece_id |-> <<1, 5>>, target |-> "b3"]}

ServerNext ==
    \/ \E s \in Slots, op \in {"command", "persuade"}, g \in ServerGames,
          mv \in ServerMoves :
           Submit(s, op, g, "s1", mv.piece_id, mv.target)
           /\ UNCHANGED <<limVars, morVars, obeyVars, persVars, respVars, cacheVars, rateVars>>
    \/ \E s \in Slots :
           Run(s) /\ UNCHANGED <<limVars, morVars, obeyVars, persVars, respVars, cacheVars, rateVars>>

ServerStart ==
    ServerInit /\ LimIdle /\ MoraleIdle /\ ObeyIdle /\ PersIdle /\ RespIdle /\ CacheIdle /\ RateIdle

SpecServer == ServerStart /\ [][ServerNext]_vars

\* approximate token counts of a generated answer
TokenSamples == {3}

\* calls of get_piece_response in progress together, all for one game, each
\* answered or failing for good; one fallback text and one change
FlowOutcomes == {Answer, [kind |-> "ValueError", status |-> 0]}

FlowsNext ==
    \/ \E f \in Flows, move \in MoveNumbers :
           StartResponse(f, 1, move, "queen", 70, TRUE, {1}, {2})
           /\ UNCHANGED <<morVars, obeyVars, persVars, gameVars, srvVars, cacheVars, rateVars>>
    \/ \E f \in Flows, outcome \in FlowOutcomes, tokens \in TokenSamples :
           Attempt(f, outcome, tokens, tokens, {1}, {2})
           /\ UNCHANGED <<morVars, obeyVars, persVars, gameVars, srvVars, cacheVars, rateVars>>
    \/ \E f \in Flows :
           Return(f) /\ UNCHANGED <<morVars, obeyVars, persVars, gameVars, srvVars, cacheVars, rateVars>>

FlowsStart ==
    /\ agentsInitialized = TRUE
    /\ RespInit /\ LimInit /\ MoraleIdle /\ ObeyIdle /\ PersIdle /\ GameIdle /\ SrvIdle /\ CacheIdle /\ RateIdle

SpecFlows == FlowsStart /\ [][FlowsNext]_vars

\* inputs of get_piece_response
ResponseGames == {NoGame, 1}
ResponsePieceTypes == {"queen", "king", "unknown"}
ResponseMorales == {-5, 30, 31, 69, 70, 150}

\* the event loop runs get_piece_response up to its first await
ResponseBegins ==
    \E game \in ResponseGames, piece_type \in ResponsePieceTypes,
       morale \in ResponseMorales, will_move \in BOOLEAN :
        StartResponse(1, game, 1, piece_type, morale, will_move, Nat, Int)
        /\ UNCHANGED <<morVars, obeyVars, persVars, gameVars, srvVars, cacheVars, rateVars>>

\* one call of get_piece_response, with the governor in any state earlier
\* calls can have left it in
ResponseNext ==
    \/ ResponseBegins
    \/ \E outcome \in Outcomes, tokens \in TokenSamples :
           Attempt(1, outcome, tokens, tokens, Nat, Int)
           /\ UNCHANGED <<morVars, obeyVars, persVars, gameVars, srvVars, cacheVars, rateVars>>
    \/ OtherCheck(1, 1)
           /\ UNCHANGED <<morVars, obeyVars, persVars, gameVars, srvVars, cacheVars, rateVars>>

ResponseStart ==
    RespInit /\ LimInit /\ MoraleIdle /\ ObeyIdle /\ PersIdle /\ GameIdle /\ SrvIdle /\ CacheIdle /\ RateIdle

SpecResponse == ResponseStart /\ [][ResponseNext]_vars

\* the same call under the scheduling the code provides: the event loop runs
\* the handler whenever it can run, while the end of an awaited remote call
\* is brought about by the remote alone. _call_with_retry awaits func with no
\* timer of its own around it, so no step of the code ends a pending attempt
SpecResponseLive == ResponseStart /\ [][ResponseNext]_vars /\ WF_vars(ResponseBegins)

\* two games from their start to their end: commands and persuasions that
\* carry a piece of either game, resignations, draw offers and answers, and
\* late joins
LifecycleNext ==
    \/ Open /\ \E g \in ServerGames, mv \in ServerMoves :
           IssueCommand(g, "s1", mv.piece_id, mv.target)
           /\ UNCHANGED <<limVars, morVars, obeyVars, persVars, respVars, srvVars, cacheVars, rateVars>>
    \/ Open /\ \E g \in ServerGames, mv \in ServerMoves :
           PersuadePiece(g, "s1", mv.piece_id, mv.target, "team")
           /\ UNCHANGED <<limVars, morVars, obeyVars, persVars, respVars, srvVars, cacheVars, rateVars>>
    \/ Open /\ \E g \in ServerGames, session \in Sessions :
           ResignGame(g, session)
           /\ UNCHANGED <<limVars, morVars, obeyVars, persVars, respVars, srvVars, cacheVars, rateVars>>
    \/ Open /\ \E g \in ServerGames, session \in Sessions :
           OfferDraw(g, session)
           /\ UNCHANGED <<limVars, morVars, obeyVars, persVars, respVars, srvVars, cacheVars, rateVars>>
    \/ Open /\ \E g \in ServerGames, accept \in BOOLEAN :
           RespondToDraw(g, accept)
           /\ UNCHANGED <<limVars, morVars, obeyVars, persVars, respVars, srvVars, cacheVars, rateVars>>
    \/ Open /\ \E g \in ServerGames, session \in Sessions :
           JoinGame(g, session, g)
           /\ UNCHANGED <<limVars, morVars, obeyVars, persVars, respVars, srvVars, cacheVars, rateVars>>

LifecycleStart ==
    ServerInit /\ LimIdle /\ MoraleIdle /\ ObeyIdle /\ PersIdle /\ RespIdle /\ CacheIdle /\ RateIdle

SpecLifecycle == LifecycleStart /\ [][LifecycleNext]_vars

\* one game from the position after White's a2-a4 was commanded and obeyed:
\* Black's pawn can take en passant on a3 or Black's king take on a4, White
\* can move the king or promote on c5; White's moves are commanded, Black's
\* (the game is against the machine) are asked for by persuasion
BoardMoves ==
    {[piece_id |-> <<1, 5>>, target |-> "a3"],
     [piece_id |-> <<1, 4>>, target |-> "a4"],
     [piece_id |-> <<1, 1>>, target |-> "b2"],
     [piece_id |-> <<1, 3>>, target |-> "c5"]}

BoardNext ==
    \/ Open /\ \E mv \in BoardMoves :
           IssueCommand(1, "s1", mv.piece_id, mv.target)
           /\ UNCHANGED <<limVars, morVars, obeyVars, persVars, respVars, srvVars, cacheVars, rateVars>>
    \/ Open /\ \E mv \in BoardMoves :
           PersuadePiece(1, "s1", mv.piece_id, mv.target, "team")
           /\ UNCHANGED <<limVars, morVars, obeyVars, persVars, respVars, srvVars, cacheVars, rateVars>>

BoardStart ==
    /\ games = <<[id |-> 1, status |-> "active", game_mode |-> "pvai", share_code |-> 1,
                  fen |-> make_move_from_squares(STARTING_FEN, "a2", "a4").board,
                  turn |-> "black", white_player_id |-> "s1",
                  black_player_id |-> "ai", result |-> NoneStr]>>
    /\ pieces = [pid \in PieceIdsOf(1) |->
            [id |-> pid, game_id |-> 1,
             color |-> STARTING_PIECES[pid[2]].color,
             piece_type |-> STARTING_PIECES[pid[2]].piece_type,
             square |-> IF pid = <<1, 2>> THEN "a4" ELSE STARTING_PIECES[pid[2]].square,
             morale |-> IF pid = <<1, 2>> THEN 73 ELSE 70,
             is_captured |-> FALSE]]
    /\ bySquare = [x \in {<<1, "b1">>, <<1, "a4">>, <<1, "c4">>, <<1, "a5">>, <<1, "b4">>} |->
            CHOOSE pid \in PieceIdsOf(1) :
                pid[2] = (CASE x[2] = "b1" -> 1 [] x[2] = "a4" -> 2 [] x[2] = "c4" -> 3
                            [] x[2] = "a5" -> 4 [] OTHER -> 5)]
    /\ messages = <<<<"system", "player_command", "piece_response", "ai_analysis",
                      "king_taunt">>>>
    /\ moves = <<<<[piece_id |-> <<1, 2>>, player_id |-> "s1", move_number |-> 1,
                    from_square |-> "a2", to_square |-> "a4"]>>>>
    /\ persuasions = <<<<>>>>
    /\ lastReq = [Reply("command", 1, "ok") EXCEPT !.legal = TRUE, !.success = TRUE,
                                                   !.executed = TRUE]
    /\ handled = 0
    /\ LimIdle /\ MoraleIdle /\ ObeyIdle /\ PersIdle /\ RespIdle /\ SrvIdle /\ CacheIdle /\ RateIdle

SpecBoard == BoardStart /\ [][BoardNext]_vars

\* games from their creation: joins, and every other request a game that
\* waits for its second player can receive.  The session header is any
\* string, the name the store gives the machine included.
JoinSessions == Sessions \cup {"ai"}

JoinNext ==
    \/ Open /\ \E session \in JoinSessions, game_mode \in {"pvai", "pvp"} :
           CreateGame(session, game_mode)
           /\ UNCHANGED <<limVars, morVars, obeyVars, persVars, respVars, srvVars, cacheVars, rateVars>>
    \/ Open /\ \E g \in GameIds, session \in JoinSessions, share_code \in GameIds \cup {0} :
           JoinGame(g, session, share_code)
           /\ UNCHANGED <<limVars, morVars, obeyVars, persVars, respVars, srvVars, cacheVars, rateVars>>
    \/ Open /\ \E g \in GameIds, session \in JoinSessions :
           IssueCommand(g, session, <<g, 2>>, "a3")
           /\ UNCHANGED <<limVars, morVars, obeyVars, persVars, respVars, srvVars, cacheVars, rateVars>>
    \/ Open /\ \E g \in GameIds, session \in JoinSessions :
           PersuadePiece(g, session, <<g, 2>>, "a3", "team")
           /\ UNCHANGED <<limVars, morVars, obeyVars, persVars, respVars, srvVars, cacheVars, rateVars>>
    \/ Open /\ \E g \in GameIds, session \in JoinSessions :
           ResignGame(g, session)
           /\ UNCHANGED <<limVars, morVars, obeyVars, persVars, respVars, srvVars, cacheVars, rateVars>>
    \/ Open /\ \E g \in GameIds, session \in JoinSessions :
           OfferDraw(g, session)
           /\ UNCHANGED <<limVars, morVars, obeyVars, persVars, respVars, srvVars, cacheVars, rateVars>>
    \/ Open /\ \E g \in GameIds, accept \in BOOLEAN :
           RespondToDraw(g, accept)
           /\ UNCHANGED <<limVars, morVars, obeyVars, persVars, respVars, srvVars, cacheVars, rateVars>>

JoinStart == GameInit /\ LimIdle /\ MoraleIdle /\ ObeyIdle /\ PersIdle /\ RespIdle /\ SrvIdle /\ CacheIdle /\ RateIdle

SpecJoin == JoinStart /\ [][JoinNext]_vars

\* analyze_move for two resulting positions while time passes
AnalysisFens == {"fen1", "fen2"}
TickSteps == {100, 200}

AnalysisNext ==
    \/ \E fen_after \in AnalysisFens, outcome \in Outcomes :
           AnalyzeMove(fen_after, outcome)
           /\ UNCHANGED <<limVars, morVars, obeyVars, persVars, gameVars, respVars, srvVars, rateVars>>
    \/ \E seconds \in TickSteps :
           Tick(seconds)
           /\ UNCHANGED <<limVars, morVars, obeyVars, persVars, gameVars, respVars, srvVars, rateVars>>

AnalysisStart ==
    CacheInit /\ RespInit /\ LimIdle /\ MoraleIdle /\ ObeyIdle /\ PersIdle /\ GameIdle /\ SrvIdle
    /\ RateIdle

SpecAnalysis == AnalysisStart /\ [][AnalysisNext]_vars

\* the request limiter under requests of two keys while time passes
RateNext ==
    \/ \E key \in RateKeys, sweeps \in BOOLEAN :
           Dispatch(key, sweeps)
           /\ UNCHANGED <<limVars, morVars, obeyVars, persVars, gameVars, respVars, srvVars, cacheVars>>
    \/ \E seconds \in {1, 2} :
           Elapse(seconds)
           /\ UNCHANGED <<limVars, morVars, obeyVars, persVars, gameVars, respVars, srvVars, cacheVars>>

RateStart ==
    /\ RateInit /\ LimIdle /\ MoraleIdle /\ ObeyIdle /\ PersIdle /\ GameIdle /\ RespIdle /\ SrvIdle
    /\ CacheInit

SpecRate == RateStart /\ [][RateNext]_vars

\* every kind of generative call the service offers, for one game
ServiceNext ==
    \/ \E will_move \in BOOLEAN :
           StartResponse(1, 1, 1, "queen", 70, will_move, {1}, {2, -1})
           /\ UNCHANGED <<morVars, obeyVars, persVars, gameVars, srvVars, cacheVars, rateVars>>
    \/ \E outcome \in FlowOutcomes \cup {[kind |-> "TimeoutError", status |-> 0]},
          tokens \in TokenSamples :
           Attempt(1, outcome, tokens, tokens, {1}, {2, -1})
           /\ UNCHANGED <<morVars, obeyVars, persVars, gameVars, srvVars, cacheVars, rateVars>>
    \/ Return(1) /\ UNCHANGED <<morVars, obeyVars, persVars, gameVars, srvVars, cacheVars, rateVars>>
    \/ \E fen_after \in AnalysisFens, outcome \in FlowOutcomes :
           AnalyzeMove(fen_after, outcome)
           /\ UNCHANGED <<limVars, morVars, obeyVars, persVars, gameVars, respVars, srvVars, rateVars>>
    \/ \E fn \in DirectCalls, outcome \in FlowOutcomes :
           DirectCall(fn, outcome)
           /\ UNCHANGED <<limVars, morVars, obeyVars, persVars, gameVars, respVars, srvVars, rateVars>>

ServiceStart ==
    /\ agentsInitialized = TRUE
    /\ CacheInit /\ RespInit /\ LimInit /\ MoraleIdle /\ ObeyIdle /\ PersIdle /\ GameIdle /\ SrvIdle
    /\ RateIdle

SpecService == ServiceStart /\ [][ServiceNext]_vars

----------------------------------------------------------------------------
(* Properties of the handlers (SpecGame) *)

\* the position, the turn, the move log, a piece's square or a piece's
\* captured flag of game g differ between the two states of a step
BoardChanged(g) ==
    \/ games'[g].fen # games[g].fen
    \/ games'[g].turn # games[g].turn
    \/ moves'[g] # moves[g]
    \/ \E pid \in PieceIdsOf(g) :
           \/ pieces'[pid].square # pieces[pid].square
           \/ pieces'[pid].is_captured # pieces[pid].is_captured

\* C1: a step of issue_command or persuade_piece changes a game's fen, turn,
\* move log, piece squares or captured flags only when the requested move is
\* a legal move of the position, validate_move reported it legal, and the
\* obedience roll (issue_command) or the persuasion roll (persuade_piece)
\* succeeded; in every other outcome they are unchanged.
C1_Step ==
    \A g \in DOMAIN games :
        (lastReq'.op \in {"command", "persuade"} /\ BoardChanged(g))
            => /\ lastReq'.code = "ok"
               /\ lastReq'.legal
               /\ ~lastReq'.bad
               /\ lastReq'.success

C1_BoardChangesOnlyOnLegalSuccess == [][C1_Step]_vars

\* a persuasion has moved a piece: the move log and the position show it
C1_Witness ==
    /\ lastReq.op = "persuade"
    /\ lastReq.executed
    /\ lastReq.legal /\ lastReq.success
    /\ lastReq.game \in DOMAIN games
    /\ Len(moves[lastReq.game]) > 0
    /\ games[lastReq.game].fen # STARTING_FEN

\* C2: validate_move and make_move_from_squares, given a square that is none
\* or a move the rules do not allow, return a declined result (legal false,
\* with its error) and leave the position as it was; issue_command then
\* rejects the command with INVALID_MOVE and changes neither the game record,
\* nor a piece, nor the move log, nor the message log.
C2_Step ==
    /\ (lastReq'.op \in {"validate_move", "make_move_from_squares"} /\ lastReq'.bad)
           => /\ ~lastReq'.legal
              /\ lastReq'.code \in {"Invalid square", "Illegal move"}
              /\ lastReq'.same
              /\ UNCHANGED storeVars
    /\ (lastReq'.op = "command" /\ lastReq'.bad)
           => /\ lastReq'.code = "INVALID_MOVE"
              /\ UNCHANGED storeVars

----------------------------------------------------------------------------
(* Properties of the morale model (SpecMorale) *)

\* C3: starting from a morale in [0,100], after any sequence of morale
\* events (table deltas and personality overrides of any size) applied
\* through apply_morale_change, the stored morale is within [0,100].
C3_MoraleStaysInRange == pieceMorale \in 0..100

\* an event whose delta would carry the morale past 100 was applied
C3_Witness ==
    /\ moraleLog.before + moraleLog.change > 100
    /\ pieceMorale = moraleLog.after
    /\ pieceMorale = 100

----------------------------------------------------------------------------
(* Properties of the governor (SpecLimiter) *)

\* the daily ceiling declines the check before the other ceilings are looked at
DailyDeclinesFirst == ~limOut.counted /\ limOut.bucketBefore >= DailyGameLimit

\* C4 (as stated): after max_calls_per_move allowed checks of one
\* (game, move) pair since the game's last reset, the next check of the pair
\* is declined with the per-move reason, and the allowed checks of a pair
\* between resets never exceed max_calls_per_move.
C4_AsStated ==
    /\ \A g \in LimGameIds, m \in MoveNumbers : allowedRun[g][m] <= MaxCallsPerMove
    /\ (limOut.op = "check" /\ limOut.runBefore >= MaxCallsPerMove)
           => (~limOut.allowed /\ limOut.reason = "move")

\* C4: after max_calls_per_move allowed checks of one (game, move) pair since
\* the game's last reset, the next check of the pair is declined; the reason
\* is the per-move one unless the game is not in today's set and today's set
\* is full, when it is the daily one.  The allowed checks of a pair between
\* resets never exceed max_calls_per_move.
C4_PerMoveCeiling ==
    /\ \A g \in LimGameIds, m \in MoveNumbers : allowedRun[g][m] <= MaxCallsPerMove
    /\ (limOut.op = "check" /\ limOut.runBefore >= MaxCallsPerMove)
           => /\ ~limOut.allowed
              /\ limOut.reason = IF DailyDeclinesFirst THEN "daily" ELSE "move"

\* a pair at its ceiling was checked again and declined for the per-move reason
C4_Witness ==
    /\ limOut.op = "check"
    /\ limOut.runBefore = MaxCallsPerMove
    /\ ~limOut.allowed
    /\ limOut.reason = "move"

\* C5: once daily_game_limit distinct games are in a day's set, the check of
\* a game not in that day's set is declined with the daily reason; no day's
\* set ever holds more than daily_game_limit games.
C5_DailyCeiling ==
    /\ \A d \in DOMAIN dailyGames : Cardinality(dailyGames[d]) <= DailyGameLimit
    /\ (limOut.op = "check" /\ ~limOut.counted
            /\ limOut.bucketBefore >= DailyGameLimit)
           => (~limOut.allowed /\ limOut.reason = "daily")

\* a game new to the day was checked when the day's set was full
C5_Witness ==
    /\ limOut.op = "check"
    /\ ~limOut.counted
    /\ limOut.bucketBefore = DailyGameLimit
    /\ ~limOut.allowed
    /\ limOut.reason = "daily"
    /\ Cardinality(DailyBucket(today)) = DailyGameLimit

\* C6: a game in today's set is never declined for the daily reason, and its
\* check is allowed whenever its per-move and per-game counts are below
\* their ceilings.
C6_CountedGameNotBlocked ==
    (limOut.op = "check" /\ limOut.counted)
        => /\ limOut.reason # "daily"
           /\ (limOut.moveBefore < MaxCallsPerMove
                   /\ limOut.gameBefore < MaxCallsPerGame) => limOut.allowed

\* a game of today's set was checked, and allowed, when the set was full
C6_Witness ==
    /\ limOut.op = "check"
    /\ limOut.counted
    /\ limOut.bucketBefore >= DailyGameLimit
    /\ limOut.allowed

\* C7 (as stated): after max_calls_per_game allowed checks of a game, every
\* further check of the game is declined, and for a move number below its
\* own ceiling the reason is the per-game one.
C7_AsStated ==
    (limOut.op = "check" /\ limOut.gameRunBefore >= MaxCallsPerGame)
        => /\ ~limOut.allowed
           /\ limOut.runBefore < MaxCallsPerMove => limOut.reason = "game"

\* C7: after max_calls_per_game allowed checks of a game since its last
\* reset, every further check of the game is declined; for a move number
\* below its own ceiling the reason is the per-game one unless the game is
\* not in today's set and today's set is full, when it is the daily one.
C7_PerGameCeiling ==
    (limOut.op = "check" /\ limOut.gameRunBefore >= MaxCallsPerGame)
        => /\ ~limOut.allowed
           /\ limOut.runBefore < MaxCallsPerMove
                  => limOut.reason = IF DailyDeclinesFirst THEN "daily" ELSE "game"

\* a game at its ceiling was checked for a move number below its own ceiling
C7_Witness ==
    /\ limOut.op = "check"
    /\ limOut.gameRunBefore = MaxCallsPerGame
    /\ limOut.runBefore < MaxCallsPerMove
    /\ ~limOut.allowed
    /\ limOut.reason = "game"

----------------------------------------------------------------------------
(* Properties of the persuasion model (SpecPersuasion) *)

\* C8: evaluate_persuasion returns a probability within [0.05, 0.95] for
\* every combination of morale (also outside 0..100), claim accuracy, risk
\* flag, trust history, check flag, material balance, move count, piece type
\* and argument.
C8_ProbabilityInRange ==
    persOut.done
        => (500 <= persOut.result.probability /\ persOut.result.probability <= 9500)

\* the factors of an evaluation add up to more than 0.95, the morale being
\* outside 0..100
C8_Witness ==
    /\ persOut.done
    /\ persIn.morale > 100
    /\ persOut.result.logic_score = 25
    /\ persOut.result.personality_match = 15
    /\ persOut.result.probability = 9500

----------------------------------------------------------------------------
(* Properties of the obedience roll (SpecObey) *)

\* C9: will_piece_obey returns obey for every draw whenever morale is at
\* least 90 and the move is not risky, for every piece type, the one with the
\* most negative bias included.
C9_HighMoraleAlwaysObeys ==
    (obeyOut.done /\ obeyIn.morale >= 90 /\ ~obeyIn.is_risky) => obeyOut.obey

\* the queen, at morale 90 or more, obeys on a draw above every rate
C9_Witness ==
    /\ obeyOut.done
    /\ obeyIn.morale >= 90
    /\ ~obeyIn.is_risky
    /\ obeyIn.piece_type = "queen"
    /\ obeyIn.draw > 9500
    /\ obeyOut.obey

\* the tier bases and the biases as the specification lists them, in 1/100
TierBase(morale) ==
    IF morale >= 80 THEN 95
    ELSE IF morale >= 60 THEN 80
    ELSE IF morale >= 40 THEN 55
    ELSE IF morale >= 20 THEN 30
    ELSE 10

Bias(piece_type) ==
    CASE piece_type = "rook" -> 10
      [] piece_type = "king" -> 15
      [] piece_type = "pawn" -> 5
      [] piece_type = "bishop" -> 0
      [] piece_type = "knight" -> -5
      [] piece_type = "queen" -> -10
      [] OTHER -> 0

\* C10: outside the override (morale >= 90 and not risky) the piece obeys
\* exactly when draw < tier_base(morale) * (0.7 if risky else 1) +
\* bias(piece_type); both sides are counted in units of 1/100000.
C10_ObeyIffDrawBelowRate ==
    (obeyOut.done /\ ~(obeyIn.morale >= 90 /\ ~obeyIn.is_risky))
        => (obeyOut.obey <=>
               obeyIn.draw * 10 <
                   TierBase(obeyIn.morale) * (IF obeyIn.is_risky THEN 700 ELSE 1000)
                   + Bias(obeyIn.piece_type) * 1000)

\* morale 70, rook, not risky, draw 0.5: obeys
C10_Witness ==
    /\ obeyOut.done
    /\ obeyIn.morale = 70
    /\ obeyIn.piece_type = "rook"
    /\ ~obeyIn.is_risky
    /\ obeyIn.draw = 5000
    /\ obeyOut.obey

\* the call of get_piece_response that is followed
TheCall == flows[1]

\* C11: whatever way the remote call fails (timeout, 429, 5xx, another status,
\* an invalid response, any other exception), on the first attempt or on every
\* retry, and whatever the piece type and the morale, get_piece_response
\* raises nothing and returns a response with a non-empty text
C11_FailureGivesFallbackText ==
    (TheCall.pc = "done" /\ TheCall.last \in RemoteFailures)
        => /\ TheCall.out.kind = "fallback"
           /\ TheCall.out.response_text # ""
           /\ Len(TheCall.out.response_text) > 0

C11_Witness ==
    /\ TheCall.pc = "done"
    /\ TheCall.piece_type = "unknown"
    /\ TheCall.calls = MaxRetries + 1
    /\ TheCall.last = [kind |-> "HTTPError", status |-> 503]
    /\ TheCall.out.kind = "fallback"

\* C12: when the governor declines the request, get_piece_response returns the
\* fallback at once: no remote attempt is made and no usage is recorded
C12_Step ==
    /\ (/\ TheCall.pc = "idle" /\ TheCall'.pc # "idle"
        /\ agentsInitialized /\ TheCall'.game # NoGame
        /\ ~CheckResult(TheCall'.game, TheCall'.move).allowed)
           => /\ TheCall'.pc = "done"
              /\ TheCall'.declined
              /\ TheCall'.out.kind = "fallback"
              /\ UNCHANGED <<ledger, remoteCalls>>
    /\ TheCall'.declined => TheCall'.pc = "done" /\ TheCall'.calls = 0

C12_DeclineMeansNoRemoteCall == [][C12_Step]_vars

C12_Witness ==
    /\ TheCall.pc = "done" /\ TheCall.declined
    /\ TheCall.out.kind = "fallback"
    /\ limOut.op = "check" /\ ~limOut.allowed

\* the waits of a loop that has failed n times and goes on: 1, 2, 4, ...
Backoff(n) == [k \in 1..n |-> 2 ^ (k - 1)]

\* C13: when every attempt times out, exactly max_retries + 1 attempts are
\* made, with waits of 1s, 2s, ... between them and none after the last, and
\* the caller falls back; there are never more than max_retries + 1 attempts
C13_TimeoutsExhaustBudget ==
    /\ TheCall.calls <= MaxRetries + 1
    /\ (TheCall.pc = "done" /\ TheCall.calls >= 1 /\ TheCall.timeouts = TheCall.calls)
           => /\ TheCall.calls = MaxRetries + 1
              /\ TheCall.calls = 3
              /\ TheCall.waits = Backoff(MaxRetries)
              /\ TheCall.waits = <<1, 2>>
              /\ TheCall.out.kind = "fallback"
    /\ (TheCall.pc = "calling" /\ TheCall.timeouts = TheCall.calls)
           => TheCall.waits = Backoff(TheCall.calls)

C13_Witness ==
    /\ TheCall.pc = "done"
    /\ TheCall.timeouts = MaxRetries + 1
    /\ TheCall.waits = <<1, 2>>
    /\ TheCall.out.kind = "fallback"

\* C14: a failure with status >= 500 or 429 is tried again under the same
\* budget and the same waits as a timeout; any other failure is never tried
\* again: the attempt that met it is the last, and when it is the first
\* failure exactly one attempt was made; the caller falls back
C14_OnlyServerAndRateLimitRetried ==
    LET http == TheCall.last.kind = "HTTPError"
        retry == http /\ (TheCall.last.status >= 500 \/ TheCall.last.status = 429)
        failed == TheCall.calls >= 1 /\ TheCall.last \in RemoteFailures
    IN /\ (failed /\ retry /\ TheCall.pc = "calling")
              => /\ TheCall.attempt = TheCall.calls
                 /\ TheCall.waits = Backoff(TheCall.calls)
       /\ (failed /\ retry /\ TheCall.pc = "done")
              => /\ TheCall.calls = MaxRetries + 1
                 /\ TheCall.waits = Backoff(MaxRetries)
                 /\ TheCall.out.kind = "fallback"
       /\ (failed /\ ~retry /\ TheCall.last.kind # "TimeoutError")
              => /\ TheCall.pc = "done"
                 /\ TheCall.out.kind = "fallback"
                 /\ Len(TheCall.waits) = TheCall.calls - 1
                 /\ TheCall.attempt = 0 => TheCall.calls = 1

C14_Witness ==
    /\ TheCall.pc = "done"
    /\ TheCall.calls = 1
    /\ TheCall.last = [kind |-> "HTTPError", status |-> 400]
    /\ TheCall.out.kind = "fallback"

C14_WitnessRetried ==
    /\ TheCall.pc = "calling"
    /\ TheCall.calls = 2
    /\ TheCall.last = [kind |-> "HTTPError", status |-> 429]
    /\ TheCall.waits = <<1, 2>>

\* C15: a persuade_piece request on an active game for an existing piece
\* appends exactly one persuasion record to that game, whether the roll
\* succeeds or not and whether the move is legal or not
C15_Step ==
    LET g == lastReq'.game IN
    (/\ lastReq'.op = "persuade" /\ handled' # handled
     /\ g \in DOMAIN games /\ games[g].status = "active")
        => /\ Len(persuasions'[g]) = Len(persuasions[g]) + 1
           /\ SubSeq(persuasions'[g], 1, Len(persuasions[g])) = persuasions[g]
           /\ persuasions'[g][Len(persuasions'[g])].success = lastReq'.success
           /\ \A h \in DOMAIN persuasions \ {g} : persuasions'[h] = persuasions[h]

C15_EveryPersuasionRecordedOnce == [][C15_Step]_vars

C15_Witness ==
    /\ lastReq.op = "persuade" /\ lastReq.code = "ok"
    /\ ~lastReq.success /\ ~lastReq.legal
    /\ Len(persuasions[lastReq.game]) = 1

C15_WitnessSuccess ==
    /\ lastReq.op = "persuade" /\ lastReq.code = "ok"
    /\ lastReq.success /\ lastReq.executed
    /\ Len(persuasions[lastReq.game]) = 1

\* the positions one legal move away from pos
Successors(pos) ==
    {Push(pos, [from |-> s, to |-> t, promotion |-> promotion]) :
        <<s, t, promotion>> \in
            {x \in BoardSquares \X BoardSquares \X BOOLEAN :
                IsLegal(pos, [from |-> x[1], to |-> x[2], promotion |-> x[3]])}}

\* C16: of two commands (issue_command, persuade_piece) the server holds at
\* once for the same game, neither reads the game and its pieces while the
\* other is between its reads and its writes: every position written is one
\* legal move away from the position it replaces, the move log grows by that
\* one move with the next number, the turn passes, and the mover's morale is
\* the morale it had plus the change of that one move
C16_Step ==
    /\ \A s \in Slots : inflight'[s].pc # "running"
    /\ \A g \in DOMAIN games :
          games'[g].fen # games[g].fen
            => /\ games'[g].fen \in Successors(games[g].fen)
               /\ games'[g].turn # games[g].turn
               /\ Len(moves'[g]) = Len(moves[g]) + 1
               /\ SubSeq(moves'[g], 1, Len(moves[g])) = moves[g]
               /\ LET made == moves'[g][Len(moves'[g])]
                  IN /\ made.move_number = Len(moves[g]) + 1
                     /\ pieces'[made.piece_id].square = made.to_square
                     /\ pieces'[made.piece_id].morale \in
                            {apply_morale_change(pieces[made.piece_id].morale, 3),
                             apply_morale_change(pieces[made.piece_id].morale, 5)}
    /\ \A g \in DOMAIN games :
          games'[g].fen = games[g].fen => moves'[g] = moves[g]

C17_Step ==
    lastReq'.op \in {"command", "persuade"}
        => \A b \in DOMAIN games \ {lastReq'.game} :
               /\ games'[b] = games[b]
               /\ \A pid \in PieceIdsOf(b) : pieces'[pid] = pieces[pid]

C17_AsStated == [][C17_Step]_vars

\* a command addressed to game 1 has moved the a2 pawn of game 2
C17_Witness ==
    /\ lastReq.op = "command" /\ lastReq.game = 1 /\ lastReq.executed
    /\ pieces[<<2, 2>>].square = "a3"
    /\ pieces[<<2, 2>>].morale = 73
    /\ pieces[<<1, 2>>].square = "a2"
    /\ games[1].fen # STARTING_FEN
    /\ games[2].fen = STARTING_FEN

\* C18: with calls of get_piece_response in progress together, the governor's
\* check-and-increment and the ledger's additions are each one step: the
\* allowed checks of a (game, move) pair never exceed max_calls_per_move, the
\* counters hold exactly the allowed checks made (none lost, none doubled),
\* and the ledger holds exactly the answers recorded
C18_CountersAtomic ==
    \A g \in LimGameIds :
        /\ \A m \in MoveNumbers :
              /\ allowedRun[g][m] <= MaxCallsPerMove
              /\ moveCalls[g][m] = allowedRun[g][m]
        /\ gameCalls[g] = SumOver(allowedRun[g], MoveNumbers)
        /\ gameCalls[g] <= MaxCallsPerGame
        /\ ledger[g].calls = answered[g]
        /\ ledger[g].calls <= gameCalls[g]
        /\ \A f \in Flows : flows[f].pc # "checked"

\* one call holds the last allowed check of the pair and waits for its
\* answer while another call, made meanwhile, was declined
C18_Witness ==
    /\ flows[1].pc = "calling" /\ flows[1].game = 1 /\ flows[1].move = 1
    /\ flows[2].pc = "done" /\ flows[2].declined
    /\ flows[2].game = 1 /\ flows[2].move = 1
    /\ moveCalls[1][1] = MaxCallsPerMove
    /\ ledger[1].calls >= 1

\* C19: under check_and_increment every (game, move) count and every game
\* total stays equal or grows and every day's set stays equal or grows; a
\* count goes down only in reset_game for that game, and a day's set
\* disappears only in cleanup_old_data
C19_Step ==
    /\ \A g \in LimGameIds :
          /\ gameCalls'[g] < gameCalls[g]
                => limOut'.op = "reset" /\ limOut'.game = g
          /\ \A m \in MoveNumbers :
                moveCalls'[g][m] < moveCalls[g][m]
                    => limOut'.op = "reset" /\ limOut'.game = g
    /\ \A d \in DOMAIN dailyGames :
          IF d \in DOMAIN dailyGames'
          THEN dailyGames[d] \subseteq dailyGames'[d]
          ELSE limOut'.op = "cleanup"
    /\ limOut'.op = "check"
          => /\ DOMAIN dailyGames \subseteq DOMAIN dailyGames'
             /\ \A g \in LimGameIds :
                   /\ gameCalls'[g] >= gameCalls[g]
                   /\ \A m \in MoveNumbers : moveCalls'[g][m] >= moveCalls[g][m]

C19_CountersOnlyGrow == [][C19_Step]_vars

\* a check on the second day: the first day's set is still there, next to
\* the new one, and the counts stand where the first day left them
C19_Witness ==
    /\ limOut.op = "check" /\ limOut.allowed
    /\ today = 1
    /\ DOMAIN dailyGames = {0, 1}
    /\ dailyGames[0] # {}
    /\ gameCalls[limOut.game] >= 2

\* C20, as stated: reset_game(g), for a game g that has counts, zeroes the
\* total and the per-move counts of g, so that the next check of g is
\* allowed, and leaves the counters of the other games and every day's set
\* as they were
C20_StepAsStated ==
    \A g \in LimGameIds :
      (limOut'.op = "reset" /\ limOut'.game = g /\ gameCalls[g] > 0)
        => /\ gameCalls'[g] = 0
           /\ \A m \in MoveNumbers : moveCalls'[g][m] = 0
           /\ \A h \in LimGameIds \ {g} :
                 gameCalls'[h] = gameCalls[h] /\ moveCalls'[h] = moveCalls[h]
           /\ dailyGames' = dailyGames
           /\ \A m \in MoveNumbers : CheckResult(g, m)'.allowed

C20_AsStated == [][C20_StepAsStated]_vars

\* C20: reset_game(g) zeroes the total and the per-move counts of g and
\* leaves the counters of the other games and every day's set as they were;
\* the next check of g is allowed unless the daily ceiling declines it, which
\* it does exactly when g is not in the current day's set and that set is full
C20_Step ==
    \A g \in LimGameIds :
      (limOut'.op = "reset" /\ limOut'.game = g)
        => /\ gameCalls'[g] = 0
           /\ \A m \in MoveNumbers : moveCalls'[g][m] = 0
           /\ \A h \in LimGameIds \ {g} :
                 gameCalls'[h] = gameCalls[h] /\ moveCalls'[h] = moveCalls[h]
           /\ dailyGames' = dailyGames
           /\ today' = today
           /\ \A m \in MoveNumbers :
                 /\ CheckResult(g, m)'.allowed <=> ~DailyLimitReached(g)'
                 /\ g \in DailyBucket(today)' => CheckResult(g, m)'.allowed

C20_ResetClearsOneGame == [][C20_Step]_vars

\* game 1 was at its ceilings and is reset: its counts are zero, it is still
\* in the day's set, another game keeps its counts
C20_Witness ==
    /\ limOut.op = "reset" /\ limOut.game = 1
    /\ limOut.gameBefore >= 1
    /\ gameCalls[1] = 0
    /\ 1 \in DailyBucket(today)
    /\ \E h \in LimGameIds \ {1} : gameCalls[h] > 0 /\ h \in DailyBucket(today)

----------------------------------------------------------------------------
\* C21: limits are kept per key. A check for (g, m) is declined for the
\* per-move ceiling only when the count of (g, m) itself has reached it and
\* for the per-game ceiling only when g's own total has reached it; it is
\* allowed whenever its own two counts are below their ceilings and the day
\* admits g, whatever the counts of other moves and other games; and it
\* changes no count of another move of g and no count of another game
C21_Step ==
    \A g \in LimGameIds, m \in MoveNumbers :
        (limOut'.op = "check" /\ limOut'.game = g /\ limOut'.move = m) =>
            /\ limOut'.reason = "move" => moveCalls[g][m] >= MaxCallsPerMove
            /\ limOut'.reason = "game" => gameCalls[g] >= MaxCallsPerGame
            /\ ( /\ moveCalls[g][m] < MaxCallsPerMove
                 /\ gameCalls[g] < MaxCallsPerGame
                 /\ \/ Cardinality(DailyBucket(today)) < DailyGameLimit
                    \/ g \in DailyBucket(today) ) => limOut'.allowed
            /\ \A m2 \in MoveNumbers \ {m} : moveCalls'[g][m2] = moveCalls[g][m2]
            /\ \A g2 \in LimGameIds \ {g} :
                  /\ moveCalls'[g2] = moveCalls[g2]
                  /\ gameCalls'[g2] = gameCalls[g2]

C21_LimitsPerKey == [][C21_Step]_vars

\* a check for the second game was allowed while the first game's total and
\* the count of its first move stand at their ceilings, the last of the first
\* game's calls having gone to another move
C21_Witness ==
    /\ limOut.op = "check" /\ limOut.game = 2 /\ limOut.allowed
    /\ gameCalls[1] = MaxCallsPerGame
    /\ moveCalls[1][1] = MaxCallsPerMove
    /\ moveCalls[1][2] >= 1
    /\ gameCalls[2] = 1

----------------------------------------------------------------------------
\* C22: cleanup_old_data(days_to_keep = N), N >= 0, removes exactly the
\* buckets dated earlier than N days before the current date and leaves the
\* others as they are, the current day's among them; it changes no per-move
\* or per-game count, so every check gives after the sweep the answer it
\* would have given before it
C22_Step ==
    \A N \in RetentionKeepDays :
        (limOut'.op = "cleanup" /\ limOut'.days_to_keep = N) =>
            /\ DOMAIN dailyGames' = {d \in DOMAIN dailyGames : d >= today - N}
            /\ \A d \in DOMAIN dailyGames' : dailyGames'[d] = dailyGames[d]
            /\ today \in DOMAIN dailyGames => today \in DOMAIN dailyGames'
            /\ moveCalls' = moveCalls /\ gameCalls' = gameCalls /\ today' = today
            /\ \A g \in LimGameIds, m \in MoveNumbers :
                  CheckResult(g, m)' = CheckResult(g, m)

C23_StepAsStated ==
    (limOut'.op = "cleanup" /\ limOut'.days_to_keep = 7) =>
        /\ 1 \notin DOMAIN dailyGames'
        /\ 10 \notin DOMAIN dailyGames'
        /\ 14 \in DOMAIN dailyGames => 14 \in DOMAIN dailyGames'
        /\ 15 \in DOMAIN dailyGames => 15 \in DOMAIN dailyGames'

C23_AsStated == [][C23_StepAsStated]_vars

\* the test's case after the sweep: of the four buckets only the one dated
\* D-14 was removed, the one dated D-5 is still there
C23_Witness ==
    /\ limOut.op = "cleanup" /\ limOut.days_to_keep = 7
    /\ today = 15
    /\ limOut.removed = {1}
    /\ DOMAIN dailyGames = {10, 14, 15}

----------------------------------------------------------------------------
\* C24, as stated: every remote call is bounded by a timeout, so a
\* get_piece_response call that is waiting for the remote always comes to
\* return, even when the remote never answers
C24_AsStated == (TheCall.pc = "calling") ~> (TheCall.pc = "done")

\* two attempts have timed out and were waited for; the third is pending
C24_Witness ==
    /\ TheCall.pc = "calling"
    /\ TheCall.timeouts = MaxRetries
    /\ TheCall.attempt = MaxRetries
    /\ TheCall.waits = <<1, 2>>

----------------------------------------------------------------------------
\* C25, as stated: no remote generative call of any kind is made unless a
\* check_and_increment for that call returned allowed immediately before it:
\* a call of analyze_move, evaluate_persuasion, generate_taunt or
\* create_custom_piece that runs its agent has made an allowed check in the
\* same handler, and an attempt of get_piece_response follows the allowed
\* check its call made for its (game, move)
C25_StepAsStated ==
    /\ (cacheVars' # cacheVars /\ svcOut'.remote)
           => (limOut' # limOut /\ limOut'.op = "check" /\ limOut'.allowed)
    /\ \A g \in LimGameIds, m \in MoveNumbers :
           remoteCalls'[g][m] > remoteCalls[g][m]
               => /\ limOut.op = "check" /\ limOut.allowed
                  /\ limOut.game = g /\ limOut.move = m

C25_AsStated == [][C25_StepAsStated]_vars

\* create_custom_piece has run its agent and the governor has never been
\* asked: no game is counted
C25_Witness ==
    /\ svcOut.fn = "create_custom_piece" /\ svcOut.remote
    /\ limOut.op = "init"
    /\ \A g \in LimGameIds : gameCalls[g] = 0
    /\ dailyGames = <<>>

\* C26, as stated: the remote calls attempted for one (game, move), every
\* retry counted, never exceed max_calls_per_move, and those attempted for
\* one game never exceed max_calls_per_game
C26_AsStated ==
    \A g \in LimGameIds :
        /\ \A m \in MoveNumbers : remoteCalls[g][m] <= MaxCallsPerMove
        /\ SumOver(remoteCalls[g], MoveNumbers) <= MaxCallsPerGame

\* one allowed check, and its call has made max_retries + 1 attempts for the
\* pair, more than max_calls_per_move
C26_Witness ==
    /\ allowedRun[1][1] = 1 /\ moveCalls[1][1] = 1
    /\ remoteCalls[1][1] = MaxRetries + 1
    /\ TheCall.pc = "done" /\ TheCall.timeouts = MaxRetries + 1

\* C27: analyze_move for a position whose analysis was cached less than
\* TTL_SECONDS ago returns that analysis, makes no remote call and leaves the
\* cache alone; once TTL_SECONDS have elapsed the entry is not served: it is
\* discarded, the agent is run again, and the position is afterwards either
\* uncached or cached as of now
C27_Step ==
    \A fen_after \in AnalysisFens :
        LET key == cache_key(fen_after) IN
        ( /\ cacheVars' # cacheVars
          /\ svcOut'.fn = "analyze_move" /\ svcOut'.key = key
          /\ key \in DOMAIN analysisCache ) =>
            IF clock - analysisCache[key].timestamp < TTL_SECONDS
            THEN /\ svcOut'.source = "cache"
                 /\ svcOut'.value = analysisCache[key].value
                 /\ ~svcOut'.remote
                 /\ analysisCache' = analysisCache
            ELSE /\ svcOut'.source # "cache"
                 /\ svcOut'.remote
                 /\ svcOut'.value # analysisCache[key].value
                 /\ \/ key \notin DOMAIN analysisCache'
                    \/ analysisCache'[key].timestamp = clock

C27_CacheServesWithinTtl == [][C27_Step]_vars

\* an analysis cached at time 0 was asked for again exactly TTL_SECONDS
\* later: the entry was discarded and a new analysis generated and cached
C27_Witness ==
    /\ clock = TTL_SECONDS
    /\ svcOut.fn = "analyze_move" /\ svcOut.discarded
    /\ svcOut.remote /\ svcOut.source = "generated"
    /\ analysisCache[svcOut.key].timestamp = clock

----------------------------------------------------------------------------
\* C28, as stated: once a game's status is completed, no command,
\* persuasion, resignation, draw offer, draw answer or join ever changes its
\* fen, turn, status or result or any of its piece records
C28_StepAsStated ==
    \A g \in DOMAIN games :
        games[g].status = "completed" =>
            /\ games'[g].fen = games[g].fen
            /\ games'[g].turn = games[g].turn
            /\ games'[g].status = games[g].status
            /\ games'[g].result = games[g].result
            /\ \A pid \in PieceIdsOf(g) : pieces'[pid] = pieces[pid]

C28_AsStated == [][C28_StepAsStated]_vars

\* what does hold: a request addressed to a completed game is rejected and
\* changes nothing in the store
C28_OwnStep ==
    (lastReq'.game \in DOMAIN games /\ games[lastReq'.game].status = "completed")
        => (lastReq'.code \in {"GAME_ENDED", "GAME_FULL"} /\ UNCHANGED storeVars)

C28_OwnRequestsRejected == [][C28_OwnStep]_vars

\* the second game was resigned, and then a command to the first game moved
\* the second game's a2 pawn to a3
C28_Witness ==
    /\ games[2].status = "completed" /\ games[2].result = "black_wins"
    /\ games[2].fen = STARTING_FEN
    /\ lastReq.op = "command" /\ lastReq.game = 1 /\ lastReq.executed
    /\ handled = 2
    /\ pieces[<<2, 2>>].square = "a3"
    /\ pieces[<<1, 2>>].square = "a2"

----------------------------------------------------------------------------
\* C29, as stated: after any sequence of accepted commands and persuasions
\* no two non-captured piece records of the same game have the same square
C29_AsStated ==
    \A p \in DOMAIN pieces, q \in DOMAIN pieces :
        ( /\ p # q
          /\ pieces[p].game_id = pieces[q].game_id
          /\ ~pieces[p].is_captured /\ ~pieces[q].is_captured )
            => pieces[p].square # pieces[q].square

\* the white pawn taken en passant on a4 still has its record, on a4 and not
\* captured, and Black's king has since moved to the empty square a4
C29_Witness ==
    /\ games[1].fen.board[parse_square("a4")] = "k"
    /\ games[1].fen.board[parse_square("a3")] = "p"
    /\ pieces[<<1, 4>>].square = "a4" /\ ~pieces[<<1, 4>>].is_captured
    /\ pieces[<<1, 2>>].square = "a4" /\ ~pieces[<<1, 2>>].is_captured
    /\ pieces[<<1, 5>>].square = "a3"
    /\ Len(moves[1]) = 4

----------------------------------------------------------------------------
\* the evaluation of 'For the team and greater good!' put to a pawn at
\* morale 70 with an accurate claim and a move that is not risky
TeamScenario ==
    /\ persOut.done
    /\ persIn.argument = "team" /\ persIn.piece_type = "pawn" /\ persIn.morale = 70
    /\ persIn.is_claim_accurate /\ ~persIn.is_risky

\* C30, as stated: in that scenario personality_match is 15 and logic_score 20
C30_AsStated ==
    TeamScenario => /\ persOut.result.personality_match = 15
                    /\ persOut.result.logic_score = 20

\* C30: in that scenario personality_match is 10, for the two keywords
\* 'team' and 'greater good' of the pawn's list that the argument contains,
\* and logic_score is 18: 5 base, 10 for the accurate claim and 3 for an
\* argument of six words
C30_TeamScenarioScores ==
    TeamScenario =>
        /\ WordCount(ArgTeam) = 6
        /\ {i \in DOMAIN PERSONALITY_KEYWORDS.pawn :
                Contains(Lower(ArgTeam), PERSONALITY_KEYWORDS.pawn[i])} = {1, 5}
        /\ persOut.result.personality_match = 10
        /\ persOut.result.logic_score = 18

\* the scenario has been evaluated, with the default trust and no urgency
C30_Witness ==
    /\ TeamScenario
    /\ persIn.trust_history = 5000 /\ ~persIn.is_check
    /\ persOut.result.morale_modifier = 10
    /\ persOut.result.probability = 8700

----------------------------------------------------------------------------
\* the evaluation of the same request with another argument and piece type
OtherEvaluation(argument, piece_type) ==
    evaluate_persuasion(argument, piece_type, persIn.morale,
                        persIn.is_claim_accurate, persIn.is_risky, persIn.trust_history,
                        persIn.is_check, persIn.material_balance, persIn.move_count,
                        persIn.draw)

\* the two evaluations differ in the personality match only
OnlyMatchDiffers(a, b) ==
    /\ a.logic_score = b.logic_score
    /\ a.morale_modifier = b.morale_modifier
    /\ a.trust_modifier = b.trust_modifier
    /\ a.urgency_factor = b.urgency_factor

Clamped(result) == result.probability \in {500, 9500}

\* C31: of two evaluations that differ only in the personality match, the one
\* with the higher match has a probability at least as high, and strictly
\* higher when neither probability is 0.05 or 0.95; 'For the team and greater
\* good!' at morale 70, accurate, not risky and otherwise with the default
\* arguments is likelier to persuade a pawn than a knight, whose match is 2
C31_MatchRaisesProbability ==
    persOut.done =>
        /\ \A a \in DOMAIN Arguments, t \in AnyPieceTypes :
              LET other == OtherEvaluation(a, t)
                  mine == persOut.result
              IN (OnlyMatchDiffers(mine, other)
                    /\ other.personality_match > mine.personality_match)
                 => /\ other.probability >= mine.probability
                    /\ (~Clamped(mine) /\ ~Clamped(other))
                         => other.probability > mine.probability
        /\ (/\ TeamScenario
            /\ persIn.trust_history = 5000 /\ ~persIn.is_check
            /\ persIn.material_balance = 0 /\ persIn.move_count = 0)
           => /\ OtherEvaluation("team", "knight").personality_match = 2
              /\ persOut.result.probability
                   > OtherEvaluation("team", "knight").probability

\* the team argument has been put to a knight with the default arguments, and
\* the pawn's evaluation of the same request differs in the match only
C31_Witness ==
    /\ persOut.done
    /\ persIn.argument = "team" /\ persIn.piece_type = "knight" /\ persIn.morale = 70
    /\ persIn.is_claim_accurate /\ ~persIn.is_risky
    /\ persIn.trust_history = 5000 /\ ~persIn.is_check
    /\ persIn.material_balance = 0 /\ persIn.move_count = 0
    /\ persOut.result.personality_match = 2
    /\ persOut.result.probability = 7900
    /\ OnlyMatchDiffers(persOut.result, OtherEvaluation("team", "pawn"))
    /\ OtherEvaluation("team", "pawn").probability = 8700

----------------------------------------------------------------------------
\* the session that plays a side of a game
PlayerOf(game, side) ==
    IF side = "white" THEN game.white_player_id ELSE game.black_player_id

\* the step changes the fen or the turn of game g
MovesGame(g) ==
    /\ g \in DOMAIN games /\ g \in DOMAIN games'
    /\ games'[g].fen # games[g].fen \/ games'[g].turn # games[g].turn

\* the step records one move of game g, asked for by the session that plays
\* the side to move, for a piece of that side that is not captured
RightfulMove(g) ==
    /\ Len(moves'[g]) = Len(moves[g]) + 1
    /\ LET mv == moves'[g][Len(moves'[g])] IN
       /\ mv.player_id = PlayerOf(games[g], games[g].turn)
       /\ mv.piece_id \in DOMAIN pieces
       /\ ~pieces[mv.piece_id].is_captured
       /\ pieces[mv.piece_id].color = games[g].turn

C32_StepAsStated == \A g \in GameIds : MovesGame(g) => RightfulMove(g)

\* C32, as stated: a game's fen and turn change only on a request from the
\* session that plays the side to move, for a non-captured piece of that
\* side, through persuade_piece as well as through issue_command
C32_AsStated == [][C32_StepAsStated]_vars

C32_CommandStep ==
    \A g \in GameIds : (MovesGame(g) /\ lastReq'.op = "command") => RightfulMove(g)

\* through issue_command a game's fen and turn change only on a request from
\* the session that plays the side to move, for a non-captured piece of it
C32_CommandsRespectTurn == [][C32_CommandStep]_vars

\* black's session has persuaded a white pawn, on white's turn, of a move that
\* was then executed
C32_Witness ==
    /\ lastReq.op = "persuade" /\ lastReq.executed
    /\ \E g \in DOMAIN games :
          /\ g = lastReq.game
          /\ games[g].game_mode = "pvp"
          /\ games[g].white_player_id = "s1" /\ games[g].black_player_id = "s2"
          /\ games[g].turn = "black"
          /\ Len(moves[g]) = 1
          /\ moves[g][1].player_id = "s2"
          /\ pieces[moves[g][1].piece_id].color = "white"

----------------------------------------------------------------------------
\* the non-captured pieces of game g whose record has the square
PiecesOn(g, square) ==
    {pid \in DOMAIN pieces : /\ pieces[pid].game_id = g
                              /\ pieces[pid].square = square
                              /\ ~pieces[pid].is_captured}

\* the last request was a command or a persuasion that moved a piece
MoveExecuted == lastReq.op \in {"command", "persuade"} /\ lastReq.executed

\* C33, as stated: after every accepted command or persuasion that moves a
\* piece, get_piece_at_square returns, for every square, exactly the
\* non-captured piece whose record has that square, and nothing for a square
\* with no such piece
C33_AsStated ==
    MoveExecuted =>
        \A g \in DOMAIN games, square \in SquareNames :
            IF PiecesOn(g, square) = {}
            THEN get_piece_at_square(g, square) = UnknownPiece
            ELSE PiecesOn(g, square) = {get_piece_at_square(g, square)}

\* a capture has been executed, and get_piece_at_square finds nothing on the
\* square the capturing piece stands on
C33_Witness ==
    /\ MoveExecuted
    /\ \E g \in DOMAIN games :
          LET mv == moves[g][Len(moves[g])] IN
          /\ g = lastReq.game /\ Len(moves[g]) > 0
          /\ \E cp \in DOMAIN pieces : pieces[cp].game_id = g /\ pieces[cp].is_captured
          /\ PiecesOn(g, mv.to_square) = {mv.piece_id}
          /\ get_piece_at_square(g, mv.to_square) = UnknownPiece

----------------------------------------------------------------------------
\* the last request was a persuasion that was evaluated, and its record
PersuasionAnswered ==
    /\ lastReq.op = "persuade" /\ lastReq.code = "ok"
    /\ lastReq.game \in DOMAIN persuasions
    /\ Len(persuasions[lastReq.game]) > 0

LastPersuasion == persuasions[lastReq.game][Len(persuasions[lastReq.game])]

\* C34, as stated: the success flag returned to the caller, the success flag
\* of the persisted persuasion record and the success field inside the
\* persisted score breakdown are equal, and a move is executed only when
\* that flag is true
C34_AsStated ==
    PersuasionAnswered =>
        /\ lastReq.success = LastPersuasion.success
        /\ LastPersuasion.evaluation.success = LastPersuasion.success
        /\ lastReq.executed => LastPersuasion.evaluation.success

\* the flag returned, the flag of the record and the execution of the move
\* follow the handler's own draw
C34_HandlerDrawDecides ==
    PersuasionAnswered =>
        /\ lastReq.success = LastPersuasion.success
        /\ lastReq.executed => lastReq.success

\* a persuasion was answered with success and its move executed, while the
\* persisted score breakdown says it failed
C34_Witness ==
    /\ PersuasionAnswered
    /\ lastReq.success /\ lastReq.executed
    /\ LastPersuasion.success
    /\ ~LastPersuasion.evaluation.success

----------------------------------------------------------------------------
\* the last request was a command that reached the roll
CommandAnswered ==
    /\ lastReq.op = "command" /\ lastReq.code = "ok"
    /\ lastReq.piece_id \in DOMAIN pieces

\* C35, as stated: the morale_after of a command result equals the morale
\* stored for the piece once the command has finished, for obeyed and for
\* refused commands alike
C35_AsStated ==
    CommandAnswered => pieces[lastReq.piece_id].morale = lastReq.morale_after

\* for an obeyed command the morale_after of the result is the stored morale
C35_ObeyedMoraleStored ==
    (CommandAnswered /\ lastReq.executed)
        => pieces[lastReq.piece_id].morale = lastReq.morale_after

\* a command was refused: the result says the morale fell by two, the store
\* holds the morale the piece had before
C35_Witness ==
    /\ CommandAnswered
    /\ ~lastReq.success /\ ~lastReq.executed
    /\ lastReq.morale_before = 70
    /\ lastReq.morale_after = 68
    /\ pieces[lastReq.piece_id].morale = 70

----------------------------------------------------------------------------
\* a draw offer was made in game g and has not been answered since
PendingOffer(g) ==
    \E i \in DOMAIN messages[g] :
        /\ messages[g][i] = DrawOffered
        /\ \A j \in DOMAIN messages[g] :
               j > i => messages[g][j] \notin {DrawAccepted, DrawDeclined}

\* the step is a respond_to_draw that completes game g as a draw
DrawAgreed(g) ==
    /\ lastReq'.op = "draw-respond" /\ lastReq'.code = "ok" /\ lastReq'.game = g
    /\ g \in DOMAIN games
    /\ games[g].status = "active"
    /\ games'[g].status = "completed" /\ games'[g].result = "draw"

C36_StepAsStated == \A g \in ServerGames : DrawAgreed(g) => PendingOffer(g)

\* C36, as stated: respond_to_draw completes a game as a draw only if a draw
\* offer was made earlier in that game and has not been answered since
C36_AsStated == [][C36_StepAsStated]_vars

\* a game was completed as a draw by respond_to_draw, and no draw was ever
\* offered in it
C36_Witness ==
    /\ lastReq.op = "draw-respond" /\ lastReq.code = "ok"
    /\ lastReq.game \in DOMAIN games
    /\ games[lastReq.game].status = "completed"
    /\ games[lastReq.game].result = "draw"
    /\ \A i \in DOMAIN messages[lastReq.game] :
          messages[lastReq.game][i] # DrawOffered

----------------------------------------------------------------------------
\* the stored turn of every game is the side to move of its stored fen
TurnMatchesFen == \A g \in DOMAIN games : games[g].turn = games[g].fen.turn

\* a step that executes a move of game g flips the turn and the fen's side
MoveFlipsBoth(g) ==
    (g \in DOMAIN games /\ g \in DOMAIN games' /\ Len(moves'[g]) # Len(moves[g]))
        => /\ games'[g].turn = Opponent(games[g].turn)
           /\ games'[g].fen.turn = Opponent(games[g].fen.turn)

\* C37: in every reachable state of a game the stored turn equals the side to
\* move encoded in the stored fen, and each executed move flips both together
C37_TurnFollowsFen ==
    /\ []TurnMatchesFen
    /\ [][\A g \in GameIds : MoveFlipsBoth(g)]_vars

\* two moves have been executed in a game: it is white's turn again, in the
\* record and in the fen
C37_Witness ==
    \E g \in DOMAIN games :
        /\ Len(moves[g]) = 2
        /\ games[g].turn = "white" /\ games[g].fen.turn = "white"
        /\ games[g].fen # STARTING_FEN

----------------------------------------------------------------------------
\* the games counted for today once the step is done
BucketAfter == IF today' \in DOMAIN dailyGames' THEN dailyGames'[today'] ELSE {}

\* a check_and_increment step: declined, it leaves the counts and the day's
\* set as they were; allowed, it adds one to the (game, move) count and to
\* the game's total and puts the game into the day's set
C38_Step ==
    (limOut'.op = "check" /\ limOut' # limOut) =>
        LET g == limOut'.game
            m == limOut'.move
        IN IF limOut'.allowed
           THEN /\ moveCalls' = [moveCalls EXCEPT ![g][m] = @ + 1]
                /\ gameCalls' = [gameCalls EXCEPT ![g] = @ + 1]
                /\ BucketAfter = DailyBucket(today) \cup {g}
           ELSE /\ moveCalls' = moveCalls
                /\ gameCalls' = gameCalls
                /\ BucketAfter = DailyBucket(today)

TotalIsSumOfMoves ==
    \A g \in LimGameIds : gameCalls[g] = SumOver(moveCalls[g], MoveNumbers)

\* C38: a declined check_and_increment increases no per-move count and no
\* per-game total and adds no game to the day's set; an allowed one increases
\* the (game, move) count and the game's total by one each and adds the game
\* to the day's set; a game's total always equals the sum of its per-move
\* counts
C38_CountsMoveTogether == [][C38_Step]_vars /\ []TotalIsSumOfMoves

\* a check was declined at the per-move ceiling of a game that has calls on
\* another move too, and the counts are what they were before it
C38_Witness ==
    /\ limOut.op = "check" /\ ~limOut.allowed /\ limOut.reason = "move"
    /\ moveCalls[limOut.game][limOut.move] = MaxCallsPerMove
    /\ moveCalls[limOut.game][limOut.move] = limOut.moveBefore
    /\ gameCalls[limOut.game] = limOut.gameBefore
    /\ gameCalls[limOut.game] > MaxCallsPerMove
    /\ limOut.game \in DailyBucket(today)

----------------------------------------------------------------------------
\* game g waits for its second player before the step
Waiting(g) == g \in DOMAIN games /\ games[g].status = "waiting"

\* a game leaves status waiting only through a join by another session than
\* its creator, which sets the black player and makes the game active
LeavesWaitingByJoin(g) ==
    (Waiting(g) /\ games'[g].status # "waiting")
        => /\ lastReq'.op = "join" /\ lastReq'.code = "ok" /\ lastReq'.game = g
           /\ games'[g].status = "active"
           /\ games[g].black_player_id = NoneStr
           /\ games'[g].black_player_id \in JoinSessions \ {games[g].white_player_id}
           /\ games'[g].white_player_id = games[g].white_player_id

\* the black player is written only while the game waits, and no game goes
\* back to waiting
BlackAssignedOnce(g) ==
    /\ (g \in DOMAIN games /\ games'[g].black_player_id # games[g].black_player_id)
           => Waiting(g) /\ games'[g].status # "waiting"
    /\ (g \in DOMAIN games /\ games'[g].status = "waiting") => Waiting(g)

\* a join of a game that no longer waits is rejected and changes nothing
LaterJoinRejected(g) ==
    (lastReq'.op = "join" /\ lastReq'.game = g /\ lastReq' # lastReq
       /\ g \in DOMAIN games /\ games[g].status # "waiting")
        => lastReq'.code \in {"GAME_FULL", "INVALID_CODE"} /\ UNCHANGED storeVars

JoinedBlackIsNotWhite ==
    \A g \in DOMAIN games :
        games[g].game_mode = "pvp"
            => games[g].black_player_id # games[g].white_player_id

\* C39: a game leaves status waiting only through a join from a session
\* different from its creator, which sets the black player and makes the game
\* active; every later join of that game is rejected, so the black player is
\* assigned at most once and never equals the white player
C39_JoinOnceByAnother ==
    /\ [][\A g \in GameIds :
             LeavesWaitingByJoin(g) /\ BlackAssignedOnce(g) /\ LaterJoinRejected(g)]_vars
    /\ []JoinedBlackIsNotWhite

\* a game created by one session was joined by another, and a later join of
\* it was rejected
C39_Witness ==
    /\ lastReq.op = "join" /\ lastReq.code = "GAME_FULL"
    /\ lastReq.game \in DOMAIN games
    /\ games[lastReq.game].game_mode = "pvp"
    /\ games[lastReq.game].status = "active"
    /\ games[lastReq.game].white_player_id = "s1"
    /\ games[lastReq.game].black_player_id = "s2"

----------------------------------------------------------------------------
\* the allowed requests of a key made at a time from lo to hi
AllowedWithin(key, lo, hi) ==
    Cardinality({i \in DOMAIN allowedLog[key] :
                    lo <= allowedLog[key][i] /\ allowedLog[key][i] <= hi})

\* no window of window_seconds holds more than max_requests allowed requests
WindowsHold ==
    \A key \in RateKeys, start \in 0..MaxTime :
        AllowedWithin(key, start, start + get_rate_limit(key).window_seconds)
            <= get_rate_limit(key).max_requests

\* a check is allowed exactly when fewer than max_requests allowed requests
\* of the key lie inside the window that ends now; allowed, it is recorded;
\* rejected, it is not
C40_Step ==
    rateOut'.op = "check" =>
        LET key == rateOut'.key
            limit == get_rate_limit(key)
            inside == AllowedWithin(key, timeNow - limit.window_seconds, timeNow)
        IN /\ rateOut'.is_allowed <=> inside < limit.max_requests
           /\ \A other \in RateKeys \ {key} : allowedLog'[other] = allowedLog[other]
           /\ IF rateOut'.is_allowed
              THEN /\ allowedLog'[key] = Append(allowedLog[key], timeNow)
                   /\ requests'[key][Len(requests'[key])] = timeNow
                   /\ Len(requests'[key]) = inside + 1
              ELSE /\ allowedLog'[key] = allowedLog[key]
                   /\ Len(requests'[key]) = inside
                   /\ rateOut'.retry_after >= 1

\* C40: for every key check_rate_limit allows at most max_requests requests
\* within any time window of window_seconds; a rejected request is not
\* recorded, and a request is allowed again as soon as fewer than
\* max_requests allowed requests remain inside the window
C40_AtMostMaxPerWindow == []WindowsHold /\ [][C40_Step]_vars

\* a key was rejected at its ceiling and, once the window had moved on, was
\* allowed again
C40_Witness ==
    /\ rateOut.op = "check" /\ rateOut.is_allowed
    /\ rateOut.key = <<"s1", "command">>
    /\ Len(allowedLog[rateOut.key]) = get_rate_limit(rateOut.key).max_requests + 1
    /\ allowedLog[rateOut.key][1] = 0 /\ allowedLog[rateOut.key][2] = 0
    /\ allowedLog[rateOut.key][3] = timeNow
    /\ timeNow = get_rate_limit(rateOut.key).window_seconds + 1

====
